---- MODULE Spec2Model ----
(***************************************************************************)
(* EDDM campaign planner: route catalog, region / delivery-type filter,    *)
(* selection, tiered pricing and budget optimizer of the EDDMMapper        *)
(* component, together with the asynchronous per-ZIP route fetches that    *)
(* feed the catalog.                                                       *)
(*                                                                         *)
(* Numbers.  Coordinates are integers on a local grid whose unit is one    *)
(* mile; calculateDistance (Haversine in the source) is modelled by the    *)
(* planar distance on that grid and compared through its square.  A route  *)
(* centroid is the mean of its points and is kept as the pair of sums and  *)
(* the point count [x, y, n]; n = 0 is the NaN the source computes as 0/0  *)
(* and every comparison with it is false, as in JavaScript.  Money is in   *)
(* mills (thousandths of a dollar), so that every rate is an integer.      *)
(***************************************************************************)
EXTENDS Integers, Sequences, FiniteSets, TLC

(***************************************************************************)
(* Bounds of the model.                                                    *)
(***************************************************************************)
\* number of searches (ZIP, radius, polygon-triggered) one behaviour starts
\* in the component with Draw-on-Map, which clears the catalog per search
MaxSearches == 1
\* number of searches one behaviour starts in the accumulating component
MaxAccumulated == 2
\* number of selection / comparison clicks one behaviour makes
MaxClicks == 2

\* features of one response handed to the optimizer
MaxOptimized == 3

\* lead-capture forms submitted in one run
MaxLeads == 2

\* searches started in a run that follows overlapping searches
MaxOverlapping == 2

(***************************************************************************)
(* Small helpers on sequences.                                             *)
(***************************************************************************)
Range(s) == { s[i] : i \in DOMAIN s }

Includes(s, e) == \E i \in DOMAIN s : s[i] = e

\* Array.prototype.filter with the predicate given as the set of kept values
FilterSeq(s, keep) ==
    LET Kept(e) == e \in keep IN SelectSeq(s, Kept)

RECURSIVE Dedup(_)
\* [...new Set(s)]: first occurrences, in order
Dedup(s) ==
    IF s = <<>> THEN <<>>
    ELSE LET r == Dedup(SubSeq(s, 1, Len(s) - 1))
         IN IF Includes(r, s[Len(s)]) THEN r ELSE Append(r, s[Len(s)])

RECURSIVE SumSeq(_)
SumSeq(s) == IF s = <<>> THEN 0 ELSE Head(s) + SumSeq(Tail(s))

RECURSIVE Flat(_)
\* Array.prototype.flat on an array of arrays
Flat(ss) == IF ss = <<>> THEN <<>> ELSE Head(ss) \o Flat(Tail(ss))

(***************************************************************************)
(* Geometry.                                                               *)
(***************************************************************************)
\* null for circleCenter and drawnPolygonPath
Null == <<>>

\* a plain point <<lat, lng>> as a scaled point
Pt(p) == [x |-> p[1], y |-> p[2], n |-> 1]

\* squared planar distance, times n^2, between the scaled point q and the
\* plain point (lat, lng)
DistSqScaled(lat, lng, q) ==
    (q.x - lat * q.n) * (q.x - lat * q.n) + (q.y - lng * q.n) * (q.y - lng * q.n)

\* a comparison that lets a NaN distance pass
calculateDistanceWithinDespiteNaN(lat, lng, q, miles, num, den) ==
    den * den * DistSqScaled(lat, lng, q) <= num * num * miles * miles * q.n * q.n

\* calculateDistance(lat1, lng1, q) <= miles * num / den, with q = NaN false
calculateDistanceWithin(lat, lng, q, miles, num, den) ==
    /\ q.n > 0
    /\ den * den * DistSqScaled(lat, lng, q) <= num * num * miles * miles * q.n * q.n

\* one iteration of the ray-casting loop: does edge (polygon[j], polygon[i])
\* flip `inside' for the scaled point q
EdgeCrosses(q, polygon, i, j) ==
    LET xi == polygon[i][1]
        yi == polygon[i][2]
        xj == polygon[j][1]
        yj == polygon[j][2]
        d  == yj - yi
        above(yy) == q.n > 0 /\ yy * q.n > q.y
    IN  /\ q.n > 0
        /\ above(yi) # above(yj)
        /\ IF d > 0
             THEN (q.x - xi * q.n) * d < (xj - xi) * (q.y - yi * q.n)
             ELSE (q.x - xi * q.n) * d > (xj - xi) * (q.y - yi * q.n)

isPointInPolygonSimple(q, polygon) ==
    IF polygon = Null \/ Len(polygon) < 3 THEN FALSE
    ELSE LET prev(i) == IF i = 1 THEN Len(polygon) ELSE i - 1
             flips == { i \in DOMAIN polygon : EdgeCrosses(q, polygon, i, prev(i)) }
         IN Cardinality(flips) % 2 = 1

isPointInPolygon(q, polygon) == isPointInPolygonSimple(q, polygon)

\* a test of the route center alone
routeIntersectsRadiusByCenter(route, circleCenterLat, circleCenterLng, radiusMiles) ==
    calculateDistanceWithin(circleCenterLat, circleCenterLng, route.center, radiusMiles, 6, 5)

routeIntersectsRadius(route, circleCenterLat, circleCenterLng, radiusMiles) ==
    \/ \E k \in DOMAIN route.coordinates :
          \E m \in DOMAIN route.coordinates[k] :
             calculateDistanceWithin(circleCenterLat, circleCenterLng,
                                     Pt(route.coordinates[k][m]), radiusMiles, 1, 1)
    \/ calculateDistanceWithin(circleCenterLat, circleCenterLng,
                               route.center, radiusMiles, 6, 5)

routeIntersectsPolygon(route, polygonPath) ==
    IF polygonPath = Null \/ Len(polygonPath) < 3 THEN TRUE
    ELSE \/ isPointInPolygon(route.center, polygonPath)
         \/ \E k \in DOMAIN route.coordinates :
               \E m \in DOMAIN route.coordinates[k] :
                  isPointInPolygon(Pt(route.coordinates[k][m]), polygonPath)

(***************************************************************************)
(* Route catalog.                                                          *)
(***************************************************************************)
\* the route a fetched feature becomes; index is the 0-based array index
\* an id that leaves the ZIP out
RouteIdWithoutZip(zip, feature, index) ==
    IF feature.CRID_ID # "" THEN feature.CRID_ID ELSE ToString(index)

\* `${zip}-${attrs.CRID_ID || index}`
RouteId(zip, feature, index) ==
    zip \o "-" \o (IF feature.CRID_ID # "" THEN feature.CRID_ID ELSE ToString(index))

TransformFeature(zip, feature, index) ==
    LET flatCoords == Flat(feature.paths)
    IN [ id          |-> RouteId(zip, feature, index),
         zipCode     |-> zip,
         coordinates |-> feature.paths,
         households  |-> feature.RES_CNT + feature.BUS_CNT,
         residential |-> feature.RES_CNT,
         business    |-> feature.BUS_CNT,
         center      |-> [ x |-> SumSeq([i \in DOMAIN flatCoords |-> flatCoords[i][1]]),
                           y |-> SumSeq([i \in DOMAIN flatCoords |-> flatCoords[i][2]]),
                           n |-> Len(flatCoords) ] ]

transformedRoutes(zip, features) ==
    [ i \in DOMAIN features |-> TransformFeature(zip, features[i], i - 1) ]

\* a filter that drops nothing
WithoutZipKeepingAll(prev, zip) == prev

\* prev.filter(r => r.zipCode !== zip)
WithoutZip(prev, zip) ==
    LET Other(r) == r.zipCode # zip IN SelectSeq(prev, Other)

\* an updater that replaces the catalog by the fetched batch
MergeRoutesReplacingAll(prev, zip, features) == transformedRoutes(zip, features)

\* the updater handed to setRoutes on a successful fetch
MergeRoutes(prev, zip, features) ==
    WithoutZip(prev, zip) \o transformedRoutes(zip, features)

Ids(rs) == [ i \in DOMAIN rs |-> rs[i].id ]

(***************************************************************************)
(* Region and delivery-type filter.                                        *)
(***************************************************************************)
routesInRadiusOf(rs, center, radius) ==
    IF center = Null \/ rs = <<>> THEN <<>>
    ELSE LET InCircle(r) == routeIntersectsRadius(r, center[1], center[2], radius)
         IN SelectSeq(rs, InCircle)

DeliveryFiltered(rs, dtype) ==
    LET Res(r) == r.residential > 0
        Bus(r) == r.business > 0
    IN IF dtype = "residential" THEN SelectSeq(rs, Res)
       ELSE IF dtype = "business" THEN SelectSeq(rs, Bus)
       ELSE rs

\* a circle filter that does not look at the drawn polygon
CircleFilteredDespitePolygon(rs, all, center, radius, polygonPath) ==
    IF center # Null
      THEN LET routeIdsInRadius == Range(Ids(routesInRadiusOf(all, center, radius)))
               Has(r) == r.id \in routeIdsInRadius
           IN SelectSeq(rs, Has)
      ELSE rs

CircleFiltered(rs, all, center, radius, polygonPath) ==
    IF center # Null /\ polygonPath = Null
      THEN LET routeIdsInRadius == Range(Ids(routesInRadiusOf(all, center, radius)))
               Has(r) == r.id \in routeIdsInRadius
           IN SelectSeq(rs, Has)
      ELSE rs

\* a polygon filter that keeps every route touching the polygon
PolygonFilteredByIntersection(rs, polygonPath) ==
    IF polygonPath # Null /\ Len(polygonPath) >= 3
      THEN LET Touches(r) == routeIntersectsPolygon(r, polygonPath)
           IN SelectSeq(rs, Touches)
      ELSE rs

PolygonFiltered(rs, polygonPath) ==
    IF polygonPath # Null /\ Len(polygonPath) >= 3
      THEN LET Inside(r) == isPointInPolygonSimple(r.center, polygonPath)
           IN SelectSeq(rs, Inside)
      ELSE rs

filteredRoutesOf(rs, dtype, center, radius, polygonPath) ==
    PolygonFiltered(
        CircleFiltered(DeliveryFiltered(rs, dtype), rs, center, radius, polygonPath),
        polygonPath)

(***************************************************************************)
(* Pricing (mills per piece).                                              *)
(***************************************************************************)
\* the `max: Infinity' of the top tier
Infinity == 1000000000

POSTAGE_RATE == 250

BUNDLING_RATE == 35

\* a table that leaves 1000 between two tiers
printPricingTiersWithGap ==
    << [min |-> 500,   max |-> 999,      rate |-> 230],
       [min |-> 1001,  max |-> 2499,     rate |-> 170],
       [min |-> 2500,  max |-> 4999,     rate |-> 120],
       [min |-> 5000,  max |-> 9999,     rate |-> 100],
       [min |-> 10000, max |-> Infinity, rate |-> 89] >>

printPricingTiers ==
    << [min |-> 500,   max |-> 999,      rate |-> 230],
       [min |-> 1000,  max |-> 2499,     rate |-> 170],
       [min |-> 2500,  max |-> 4999,     rate |-> 120],
       [min |-> 5000,  max |-> 9999,     rate |-> 100],
       [min |-> 10000, max |-> Infinity, rate |-> 89] >>

\* a tier lookup whose lower bound is exclusive
FindTierIndexExclusiveMin(tiers, quantity) ==
    LET hits == { i \in DOMAIN tiers : quantity > tiers[i].min /\ quantity <= tiers[i].max }
    IN IF hits = {} THEN 0 ELSE CHOOSE i \in hits : \A k \in hits : i <= k

\* a lookup that prices a quantity within 50 of the next tier in that tier
FindTierIndexRoundingUp(tiers, quantity) ==
    LET hits == { i \in DOMAIN tiers :
                    quantity + 50 >= tiers[i].min /\ quantity + 50 <= tiers[i].max }
    IN IF hits = {} THEN 0 ELSE CHOOSE i \in hits : \A k \in hits : i <= k

\* Array.prototype.findIndex, 1-based, 0 when nothing matches (-1 in the source)
FindTierIndex(tiers, quantity) ==
    LET hits == { i \in DOMAIN tiers : quantity >= tiers[i].min /\ quantity <= tiers[i].max }
    IN IF hits = {} THEN 0 ELSE CHOOSE i \in hits : \A k \in hits : i <= k

\* a distance to the end of the current tier instead of the start of the next
addressesUntilNextDiscountToMax(currentTierIndex, totalAddresses) ==
    IF currentTierIndex < Len(printPricingTiers)
      THEN printPricingTiers[currentTierIndex].max - totalAddresses
      ELSE 0

\* nextTierObj ? nextTierObj.min - totalAddresses : 0
addressesUntilNextDiscountOf(currentTierIndex, totalAddresses) ==
    IF currentTierIndex < Len(printPricingTiers)
      THEN printPricingTiers[currentTierIndex + 1].min - totalAddresses
      ELSE 0

\* the estimate calculateTotal returns for an address total
calculateTotalFor(totalAddresses) ==
    LET currentTierIndex == FindTierIndex(printPricingTiers, totalAddresses)
    IN IF currentTierIndex = 0
         THEN [ addresses |-> totalAddresses, belowMinimum |-> TRUE,
                minimumQuantity |-> 500 ]
         ELSE LET printRate    == printPricingTiers[currentTierIndex].rate
                  printCost    == totalAddresses * printRate
                  postageCost  == totalAddresses * POSTAGE_RATE
                  bundlingCost == totalAddresses * BUNDLING_RATE
                  totalCost    == printCost + postageCost + bundlingCost
                  hasNext      == currentTierIndex < Len(printPricingTiers)
                  nextTierObj  == printPricingTiers[currentTierIndex + 1]
              IN [ addresses |-> totalAddresses, belowMinimum |-> FALSE,
                   printRate |-> printRate, printCost |-> printCost,
                   postageCost |-> postageCost, bundlingCost |-> bundlingCost,
                   total |-> totalCost,
                   hasNextTier |-> hasNext,
                   addressesUntilNextDiscount |->
                       addressesUntilNextDiscountOf(currentTierIndex, totalAddresses),
                   potentialSavings |->
                       IF hasNext
                         THEN totalCost - ( nextTierObj.min * nextTierObj.rate
                                          + nextTierObj.min * POSTAGE_RATE
                                          + nextTierObj.min * BUNDLING_RATE )
                         ELSE 0 ]

getRouteAddresses(route, dtype) ==
    IF dtype = "residential" THEN route.residential
    ELSE IF dtype = "business" THEN route.business
    ELSE route.households

\* total address count of the selected routes, as calculateTotal sums it
totalAddressesOf(rs, selected, dtype) ==
    LET Sel(r) == Includes(selected, r.id)
        picked == SelectSeq(rs, Sel)
    IN SumSeq([ i \in DOMAIN picked |-> getRouteAddresses(picked[i], dtype) ])

\* a table whose third tier costs more per piece than its second
TurnkeyTiersRising ==
    << [min |-> 0,     max |-> 999,      rate |-> 650],
       [min |-> 1000,  max |-> 2499,     rate |-> 590],
       [min |-> 2500,  max |-> 9999,     rate |-> 620],
       [min |-> 10000, max |-> Infinity, rate |-> 490] >>

\* roiCalculator.js, all-inclusive rates in mills per piece
TURNKEY_PRICING_TIERS ==
    << [min |-> 0,     max |-> 999,      rate |-> 650],
       [min |-> 1000,  max |-> 2499,     rate |-> 590],
       [min |-> 2500,  max |-> 9999,     rate |-> 520],
       [min |-> 10000, max |-> Infinity, rate |-> 490] >>

getTurnkeyRatePerPiece(pieces) ==
    IF pieces <= 0 THEN TURNKEY_PRICING_TIERS[1].rate
    ELSE LET i == FindTierIndex(TURNKEY_PRICING_TIERS, pieces)
         IN IF i # 0 THEN TURNKEY_PRICING_TIERS[i].rate
            ELSE TURNKEY_PRICING_TIERS[Len(TURNKEY_PRICING_TIERS)].rate

RECOMMENDED_MINIMUM == 1000

\* index -1 of the source is 0 here, so "the tier after" a quantity that
\* matches no tier is the first tier, as in the source
getTurnkeyEstimate(pieces) ==
    LET ratePerPiece     == getTurnkeyRatePerPiece(pieces)
        total            == pieces * ratePerPiece
        currentTierIndex == FindTierIndex(TURNKEY_PRICING_TIERS, pieces)
        hasNext          == currentTierIndex < Len(TURNKEY_PRICING_TIERS)
        nextTier         == TURNKEY_PRICING_TIERS[currentTierIndex + 1]
        piecesUntilNextDiscount == IF hasNext THEN nextTier.min - pieces ELSE 0
    IN [ ratePerPiece |-> ratePerPiece, total |-> total, pieces |-> pieces,
         belowRecommended |-> pieces < RECOMMENDED_MINIMUM /\ pieces > 0,
         recommendedMinimum |-> RECOMMENDED_MINIMUM,
         hasNextTier |-> hasNext,
         piecesUntilNextDiscount |-> piecesUntilNextDiscount,
         potentialSavings |->
             IF hasNext /\ piecesUntilNextDiscount > 0
               THEN (ratePerPiece - nextTier.rate) * pieces ELSE 0 ]

\* calculateTotal of the component that quotes turnkey prices
calculateTotalTurnkey(totalAddresses) ==
    LET estimate == getTurnkeyEstimate(totalAddresses)
    IN [ addresses |-> totalAddresses, belowMinimum |-> FALSE,
         belowRecommended |-> estimate.belowRecommended,
         recommendedMinimum |-> estimate.recommendedMinimum,
         ratePerPiece |-> estimate.ratePerPiece, total |-> estimate.total,
         hasNextTier |-> estimate.hasNextTier,
         addressesUntilNextDiscount |-> estimate.piecesUntilNextDiscount,
         potentialSavings |-> estimate.potentialSavings ]

(***************************************************************************)
(* ROI calculator (roiCalculator.js).  A number is an exact fraction        *)
(* [num, den] in lowest terms with den > 0, or the NaN or Infinity that a   *)
(* JavaScript division by zero leaves.                                      *)
(***************************************************************************)
RECURSIVE GCD(_, _)
GCD(a, b) == IF b = 0 THEN a ELSE GCD(b, a % b)

Abs(n) == IF n < 0 THEN 0 - n ELSE n

Rat(n, d) ==
    LET g == GCD(Abs(n), d)
    IN [kind |-> "number", num |-> n \div g, den |-> d \div g]

NaN == [kind |-> "NaN"]

PlusInfinity == [kind |-> "Infinity"]

Zero == Rat(0, 1)

IsNumber(a) == a.kind = "number"

\* a * b
Times(a, b) ==
    IF ~IsNumber(a) \/ ~IsNumber(b) THEN NaN
    ELSE LET g1 == GCD(Abs(a.num), b.den)
             g2 == GCD(Abs(b.num), a.den)
         IN Rat((a.num \div g1) * (b.num \div g2), (a.den \div g2) * (b.den \div g1))

\* a - b
Minus(a, b) ==
    IF ~IsNumber(a) \/ ~IsNumber(b) THEN NaN
    ELSE LET g == GCD(a.den, b.den)
         IN Rat(a.num * (b.den \div g) - b.num * (a.den \div g), (a.den \div g) * b.den)

\* a / b: 0 / 0 is NaN, x / 0 is Infinity
Over(a, b) ==
    IF ~IsNumber(a) \/ ~IsNumber(b) THEN NaN
    ELSE IF b.num = 0 THEN (IF a.num = 0 THEN NaN ELSE PlusInfinity)
    ELSE IF b.num > 0 THEN Times(a, Rat(b.den, b.num))
    ELSE Times(a, Rat(0 - b.den, 0 - b.num))

\* a > 0, false for NaN
Positive(a) == a.kind = "Infinity" \/ (IsNumber(a) /\ a.num > 0)

\* Math.round(a * scale) / scale
RoundTo(a, scale) ==
    IF ~IsNumber(a) THEN a
    ELSE Rat((2 * a.num * scale + a.den) \div (2 * a.den), scale)

scenarioNames == << "baseline", "typical", "bestInClass" >>

Rates(baseline, typical, bestInClass, den) ==
    [ baseline |-> Rat(baseline, den), typical |-> Rat(typical, den),
      bestInClass |-> Rat(bestInClass, den) ]

INDUSTRY_BENCHMARKS ==
    [ restaurant |->
        [ responseRate |-> Rates(10, 22, 35, 1000), conversionRate |-> Rates(32, 45, 55, 100),
          economics |-> [ltv |-> Rat(192, 1), margin |-> Rat(32, 100)] ],
      home_services |->
        [ responseRate |-> Rates(10, 18, 30, 1000), conversionRate |-> Rates(30, 38, 48, 100),
          economics |-> [ltv |-> Rat(455, 1), margin |-> Rat(38, 100)] ],
      retail |->
        [ responseRate |-> Rates(10, 22, 35, 1000), conversionRate |-> Rates(32, 45, 55, 100),
          economics |-> [ltv |-> Rat(165, 1), margin |-> Rat(40, 100)] ],
      real_estate |->
        [ responseRate |-> Rates(4, 10, 20, 1000), conversionRate |-> Rates(6, 10, 15, 100),
          economics |-> [ltv |-> Rat(4500, 1), margin |-> Rat(22, 100)] ],
      professional_services |->
        [ responseRate |-> Rates(6, 12, 22, 1000), conversionRate |-> Rates(22, 30, 40, 100),
          economics |-> [ltv |-> Rat(750, 1), margin |-> Rat(48, 100)] ],
      healthcare |->
        [ responseRate |-> Rates(8, 16, 28, 1000), conversionRate |-> Rates(30, 40, 50, 100),
          economics |-> [ltv |-> Rat(450, 1), margin |-> Rat(42, 100)] ] ]

NoOverrides ==
    [ responseRate |-> {}, conversionRate |-> {}, economics |-> [ltv |-> {}, margin |-> {}] ]

\* campaignCost > 0 ? grossProfit / campaignCost : 0
roiMultipleOf(grossProfit, campaignCost) ==
    IF Positive(campaignCost) THEN Over(grossProfit, campaignCost) ELSE Zero

\* a cost per customer without the guard
cacOfUnguarded(campaignCost, customers) == Over(campaignCost, customers)

\* customers > 0 ? campaignCost / customers : 0
cacOf(campaignCost, customers) ==
    IF Positive(customers) THEN Over(campaignCost, customers) ELSE Zero

\* conversionRate > 0 && totalAddresses > 0 ? breakEvenCustomers / (...) : 0
breakEvenResponseRateOf(breakEvenCustomers, totalAddresses, conversionRate) ==
    IF Positive(conversionRate) /\ Positive(totalAddresses)
      THEN Over(breakEvenCustomers, Times(totalAddresses, conversionRate))
      ELSE Zero

\* the scenarios calculateROI returns; overrides hold at most one table per
\* rate and at most one value per economics field
calculateROI(totalAddresses, campaignCost, industry, overrides) ==
    LET benchmark == INDUSTRY_BENCHMARKS[industry]
        responseRates == IF overrides.responseRate # {}
                           THEN CHOOSE t \in overrides.responseRate : TRUE
                           ELSE benchmark.responseRate
        conversionRates == IF overrides.conversionRate # {}
                             THEN CHOOSE t \in overrides.conversionRate : TRUE
                             ELSE benchmark.conversionRate
        economics == [ k \in {"ltv", "margin"} |->
                         IF overrides.economics[k] # {}
                           THEN CHOOSE v \in overrides.economics[k] : TRUE
                           ELSE benchmark.economics[k] ]
        grossProfitPerCustomer == Times(economics.ltv, economics.margin)
        breakEvenCustomers == IF Positive(grossProfitPerCustomer)
                                THEN Over(campaignCost, grossProfitPerCustomer)
                                ELSE Zero
        Scenario(scenario) ==
            LET responseRate   == responseRates[scenario]
                conversionRate == conversionRates[scenario]
                responses      == Times(totalAddresses, responseRate)
                customers      == Times(responses, conversionRate)
                revenue        == Times(customers, economics.ltv)
                grossProfit    == Times(revenue, economics.margin)
                netProfit      == Minus(grossProfit, campaignCost)
                roiMultiple    == roiMultipleOf(grossProfit, campaignCost)
                roiPercentage  == IF Positive(campaignCost)
                                    THEN Times(Over(Minus(grossProfit, campaignCost),
                                                    campaignCost), Rat(100, 1))
                                    ELSE Zero
                cac            == cacOf(campaignCost, customers)
                breakEvenResponseRate ==
                    breakEvenResponseRateOf(breakEvenCustomers, totalAddresses, conversionRate)
            IN [ responseRate |-> responseRate,
                 responses |-> RoundTo(responses, 1),
                 conversionRate |-> conversionRate,
                 customers |-> RoundTo(customers, 10),
                 revenue |-> RoundTo(revenue, 1),
                 grossProfit |-> RoundTo(grossProfit, 1),
                 netProfit |-> RoundTo(netProfit, 1),
                 roiMultiple |-> RoundTo(roiMultiple, 100),
                 roiPercentage |-> RoundTo(roiPercentage, 1),
                 cac |-> RoundTo(cac, 1),
                 breakEvenCustomers |-> RoundTo(breakEvenCustomers, 10),
                 breakEvenResponseRate |->
                     RoundTo(Times(breakEvenResponseRate, Rat(100, 1)), 100) ]
    IN [ baseline |-> Scenario("baseline"), typical |-> Scenario("typical"),
         bestInClass |-> Scenario("bestInClass") ]

(***************************************************************************)
(* Budget optimizer.                                                       *)
(***************************************************************************)
\* the print rate the optimizer prices an address total at
OptimizerPrintRate(addresses) ==
    IF addresses < 500 THEN 230
    ELSE LET i == FindTierIndex(printPricingTiers, addresses)
         IN IF i # 0 THEN printPricingTiers[i].rate ELSE 89

calculateCostForAddresses(addresses) ==
    addresses * (OptimizerPrintRate(addresses) + POSTAGE_RATE + BUNDLING_RATE)

\* sign of the sort comparator b.valuePerDollar - a.valuePerDollar, with
\* valuePerDollar = addresses / estimatedCost compared exactly; a route of 0
\* addresses has valuePerDollar 0/0 = NaN and the comparator's NaN counts as 0
CompareValue(a, b) ==
    IF a.estimatedCost = 0 \/ b.estimatedCost = 0 THEN 0
    ELSE LET l == b.addresses * a.estimatedCost
             r == a.addresses * b.estimatedCost
         IN IF l > r THEN 1 ELSE IF l < r THEN -1 ELSE 0

RECURSIVE InsertByValue(_, _)
\* stable insertion: x goes before the first element it must precede
InsertByValue(sorted, x) ==
    IF sorted = <<>> THEN <<x>>
    ELSE IF CompareValue(Head(sorted), x) > 0 THEN <<x>> \o sorted
    ELSE <<Head(sorted)>> \o InsertByValue(Tail(sorted), x)

RECURSIVE SortByValue(_)
SortByValue(rs) ==
    IF rs = <<>> THEN <<>>
    ELSE InsertByValue(SortByValue(SubSeq(rs, 1, Len(rs) - 1)), rs[Len(rs)])

\* the comparator is a consistent comparison function on rs: routes that both
\* compare equal to a third compare equal to each other (a NaN value density
\* compares equal to everything, so it breaks this whenever two others differ)
ConsistentComparator(rs) ==
    \A i, j, k \in DOMAIN rs :
        (CompareValue(rs[i], rs[j]) = 0 /\ CompareValue(rs[j], rs[k]) = 0)
            => CompareValue(rs[i], rs[k]) = 0

Orderings(rs) ==
    { [ i \in DOMAIN rs |-> rs[p[i]] ] :
        p \in { q \in [DOMAIN rs -> DOMAIN rs] :
                  \A i, j \in DOMAIN rs : i # j => q[i] # q[j] } }

\* the arrays Array.prototype.sort may leave: the stable descending order under
\* a consistent comparator, an implementation-defined order otherwise
SortOutcomes(rs) ==
    IF ConsistentComparator(rs) THEN { SortByValue(rs) } ELSE Orderings(rs)

\* filteredRoutes.map(...) before the sort
ValuedRoutes(filtered, dtype) ==
    [ i \in DOMAIN filtered |->
        [ id |-> filtered[i].id,
          addresses |-> getRouteAddresses(filtered[i], dtype),
          estimatedCost |-> calculateCostForAddresses(getRouteAddresses(filtered[i], dtype)) ] ]

\* the arrays routesWithValue can be after the sort
routesWithValueOf(filtered, dtype) == SortOutcomes(ValuedRoutes(filtered, dtype))

RECURSIVE GreedyIgnoringBudget(_, _, _, _)
\* a loop that adds every route
GreedyIgnoringBudget(rest, budget, acc, k) ==
    IF k > Len(rest) THEN acc
    ELSE LET newTotal == acc.totalAddresses + rest[k].addresses
             newCost  == calculateCostForAddresses(newTotal)
         IN GreedyIgnoringBudget(rest, budget,
                [ selectedIds |-> Append(acc.selectedIds, rest[k].id),
                  totalAddresses |-> newTotal, runningCost |-> newCost ], k + 1)

RECURSIVE Greedy(_, _, _, _)
\* the greedy loop: acc = [selectedIds, totalAddresses, runningCost]
Greedy(rest, budget, acc, k) ==
    IF k > Len(rest) THEN acc
    ELSE LET newTotal == acc.totalAddresses + rest[k].addresses
             newCost  == calculateCostForAddresses(newTotal)
         IN IF newCost <= budget
              THEN Greedy(rest, budget,
                          [ selectedIds |-> Append(acc.selectedIds, rest[k].id),
                            totalAddresses |-> newTotal, runningCost |-> newCost ], k + 1)
              ELSE Greedy(rest, budget, acc, k + 1)

\* a selection without the forced route
SelectionFromGreedyOnly(routesWithValue, budget) ==
    Greedy(routesWithValue, budget,
           [selectedIds |-> <<>>, totalAddresses |-> 0, runningCost |-> 0], 1).selectedIds

\* the ids handed to setSelectedRoutes for one sorted array; budget in mills
SelectionFrom(routesWithValue, budget) ==
    LET g == Greedy(routesWithValue, budget,
                    [selectedIds |-> <<>>, totalAddresses |-> 0, runningCost |-> 0], 1)
    IN IF g.selectedIds = <<>> /\ Len(routesWithValue) > 0
         THEN << routesWithValue[1].id >>
         ELSE g.selectedIds

\* the selections optimizeForBudget can hand to setSelectedRoutes
OptimizedSelections(filtered, dtype, budget) ==
    { SelectionFrom(sorted, budget) : sorted \in routesWithValueOf(filtered, dtype) }

(***************************************************************************)
(* Inputs of the model: what the upstream services and the user supply.    *)
(***************************************************************************)
Zips == {"33815", "33803"}

\* features of the USPS response; CRID_ID "" is an absent carrier-route code
FeatureA == [ CRID_ID |-> "C001", RES_CNT |-> 600, BUS_CNT |-> 0,
              paths |-> << << <<1, 1>>, <<1, 2>>, <<2, 1>> >> >> ]

FeatureB == [ CRID_ID |-> "C002", RES_CNT |-> 0, BUS_CNT |-> 300,
              paths |-> << << <<3, 3>>, <<3, 7>>, <<7, 3>> >> >> ]

FeatureC == [ CRID_ID |-> "", RES_CNT |-> 450, BUS_CNT |-> 100,
              paths |-> << << <<8, 8>>, <<8, 9>>, <<9, 8>> >> >> ]

\* the feature lists a successful response can carry; codes are distinct
\* within one response and are never a decimal index
Batches == { <<FeatureA, FeatureB>>, <<FeatureC>> }

Centers == { <<0, 0>>, <<9, 9>> }

Radii == {3, 5}

PolygonA == << <<0, 0>>, <<0, 4>>, <<4, 4>>, <<4, 0>> >>

\* a path of two vertices
PolygonDegenerate == << <<0, 0>>, <<4, 4>> >>

Paths == { PolygonA, PolygonDegenerate }

DeliveryTypes == {"all", "residential", "business"}

\* budgets the slider of the optimizer offers (200 to 10000 by 100), in dollars
Budgets == {200, 400, 1000}

NoGeocodeError == [kind |-> "null", ok |-> 0, total |-> 0, failed |-> 0]

(***************************************************************************)
(* State of the component.                                                 *)
(***************************************************************************)
VARIABLES
    build,                  \* which EDDMMapper is running: "draw" is the one
                            \* with Draw-on-Map, whose searches clear the
                            \* catalog; "accumulate" is EDDMMapper.js, whose
                            \* searches keep it
    routes,                 \* the catalog, useState([])
    selectedRoutes,         \* selected route ids
    comparisonRoutes,       \* route ids picked for comparison
    deliveryType,
    circleCenter,           \* Null or <<lat, lng>>
    centerZip,              \* "" for null
    selectedRadius,
    drawnPolygonPath,       \* Null or the drawn path
    lastPolygonSelectedRef, \* Null or the path auto-selection last ran for
    showHeatMap,
    loading,
    geocoding,
    error,                  \* "" for null
    geocodeError,
    searches,               \* the searches started so far, oldest first
    fetches,                \* the route fetches issued, pending or settled
    clicks,                 \* selection / comparison clicks made so far
    probe,                  \* arguments handed to a pure function
    outcome                 \* what the function returned for them

vars == << build, routes, selectedRoutes, comparisonRoutes, deliveryType, circleCenter,
           centerZip, selectedRadius, drawnPolygonPath, lastPolygonSelectedRef,
           showHeatMap, loading, geocoding, error, geocodeError, searches,
           fetches, clicks, probe, outcome >>

NoProbe == [of |-> "none"]

NoOutcome == [by |-> "none"]

InitState ==
    /\ routes = <<>>
    /\ selectedRoutes = <<>>
    /\ comparisonRoutes = <<>>
    /\ deliveryType = "all"
    /\ circleCenter = Null
    /\ centerZip = ""
    /\ selectedRadius = 5
    /\ drawnPolygonPath = Null
    /\ lastPolygonSelectedRef = Null
    /\ showHeatMap = FALSE
    /\ loading = FALSE
    /\ geocoding = FALSE
    /\ error = ""
    /\ geocodeError = NoGeocodeError
    /\ searches = <<>>
    /\ fetches = {}
    /\ clicks = 0

Init == build = "draw" /\ InitState /\ probe = NoProbe /\ outcome = NoOutcome

InitAccumulate ==
    build = "accumulate" /\ InitState /\ probe = NoProbe /\ outcome = NoOutcome

SearchBound ==
    IF build # "draw" THEN MaxAccumulated
    ELSE IF probe.of = "overlap" THEN MaxOverlapping
    ELSE MaxSearches

\* the catalog and selection a starting search leaves behind
RoutesAtSearch == IF build = "draw" THEN <<>> ELSE routes

SelectionAtSearch == IF build = "draw" THEN <<>> ELSE selectedRoutes

filteredRoutes ==
    filteredRoutesOf(routes, deliveryType, circleCenter, selectedRadius, drawnPolygonPath)

routesInRadius == routesInRadiusOf(routes, circleCenter, selectedRadius)

(***************************************************************************)
(* The two effects on [filteredRoutes]: the selection prune and the        *)
(* polygon auto-select.  They run after a render in which filteredRoutes   *)
(* was recomputed; the auto-select, declared later, has the last word.     *)
(***************************************************************************)
\* the in-scope ids that are selected, in the order of the in-scope list
pruneSelectionInScopeOrder(selected, filtered) == FilterSeq(Ids(filtered), Range(selected))

\* prev.filter(id => filteredRoutes.some(route => route.id === id))
pruneSelection(selected, filtered) == FilterSeq(selected, Range(Ids(filtered)))

AutoSelects(filtered, polygonPath, ref) ==
    /\ polygonPath # Null
    /\ Len(polygonPath) >= 3
    /\ Len(filtered) > 0
    /\ ref # polygonPath

\* the state a handler leaves, with the effects applied when `rerun' says
\* that one of filteredRoutes' dependencies was replaced
Commit(rs, sel, dtype, center, radius, polygonPath, ref, rerun) ==
    LET filtered == filteredRoutesOf(rs, dtype, center, radius, polygonPath)
        auto     == rerun /\ AutoSelects(filtered, polygonPath, ref)
    IN  /\ routes' = rs
        /\ deliveryType' = dtype
        /\ circleCenter' = center
        /\ selectedRadius' = radius
        /\ drawnPolygonPath' = polygonPath
        /\ lastPolygonSelectedRef' = IF auto THEN polygonPath ELSE ref
        /\ selectedRoutes' = IF auto THEN Ids(filtered)
                             ELSE IF rerun THEN pruneSelection(sel, filtered)
                             ELSE sel

(***************************************************************************)
(* Searches and route fetches.                                             *)
(***************************************************************************)
\* `concurrent' records whether an earlier search was still running when
\* this one started
NewSearch(kind, origin, phase, knownCenterZip, zips) ==
    [ kind |-> kind, origin |-> origin, phase |-> phase,
      knownCenterZip |-> knownCenterZip, allZipCodes |-> zips,
      concurrent |-> \E t \in DOMAIN searches : searches[t].phase # "done" ]

\* a call of fetchEDDMRoutes(zip, options) up to its first await
NewFetch(search, zip, isCenter, clearOnError, setLoadingState) ==
    [ search |-> search, zip |-> zip, status |-> "pending", features |-> <<>>,
      isCenter |-> isCenter, clearOnError |-> clearOnError,
      setLoadingState |-> setLoadingState ]

FetchesOf(fs, s) == { f \in fs : f.search = s }

\* the fetches still referenced once a new search starts: the promises of a
\* search that has returned are garbage, those of a running search are not
Live(fs) == { f \in fs : f.status = "pending" \/ searches[f.search].phase # "done" }

AllSettled(fs, s) == \A f \in FetchesOf(fs, s) : f.status # "pending"

\* what fetchRoutesForRadius reports once Promise.allSettled has resolved:
\* the center promise carries a catch handler and so is always fulfilled
RadiusOutcome(fs, s, total, before) ==
    LET mine         == FetchesOf(fs, s)
        successCount == Cardinality({ f \in mine : f.isCenter \/ f.status = "fulfilled" })
        failCount    == Cardinality({ f \in mine : ~f.isCenter /\ f.status = "rejected" })
    IN IF successCount = 0
         THEN [kind |-> "none_loaded", ok |-> 0, total |-> 0, failed |-> 0]
       ELSE IF failCount > 0
         THEN [kind |-> "partial", ok |-> successCount,
               total |-> total, failed |-> failCount]
       ELSE before

\* the synchronous head of fetchRoutesForRadius: flags, the cleared catalog
\* and selection, and the early fetch of a known center ZIP
StartRadiusSearch(origin, center, radius, knownCenterZip, polygonPath) ==
    LET s == Len(searches) + 1
    IN  /\ Len(searches) < SearchBound
        /\ loading' = TRUE
        /\ geocodeError' = NoGeocodeError
        /\ error' = ""
        /\ searches' = Append(searches,
              NewSearch("radius", origin, "discover", knownCenterZip, {}))
        /\ fetches' = Live(fetches) \cup
              ( IF knownCenterZip # ""
                  THEN { NewFetch(s, knownCenterZip, TRUE, FALSE, FALSE) }
                  ELSE {} )
        /\ Commit(RoutesAtSearch, SelectionAtSearch, deliveryType, center, radius,
                  polygonPath, lastPolygonSelectedRef,
                  build = "draw" \/ center # circleCenter \/ radius # selectedRadius
                                 \/ polygonPath # drawnPolygonPath)
        /\ UNCHANGED << probe, outcome, build >>

\* a ZIP search that keeps the circle center
handleZipSearchKeepingCircle(zip) ==
    /\ ~loading
    /\ Len(searches) < SearchBound
    /\ centerZip' = ""
    /\ geocodeError' = NoGeocodeError
    /\ loading' = TRUE
    /\ error' = ""
    /\ searches' = Append(searches, NewSearch("zip", "zip", "fetch", "", {zip}))
    /\ fetches' = Live(fetches) \cup { NewFetch(Len(searches) + 1, zip, FALSE, TRUE, TRUE) }
    /\ Commit(RoutesAtSearch, SelectionAtSearch, deliveryType, circleCenter, selectedRadius,
              drawnPolygonPath, lastPolygonSelectedRef, build = "draw")
    /\ UNCHANGED << probe, outcome, build, comparisonRoutes, showHeatMap, geocoding, clicks >>

handleZipSearch(zip) ==
    /\ ~loading
    /\ Len(searches) < SearchBound
    /\ centerZip' = ""
    /\ geocodeError' = NoGeocodeError
    /\ loading' = TRUE
    /\ error' = ""
    /\ searches' = Append(searches, NewSearch("zip", "zip", "fetch", "", {zip}))
    /\ fetches' = Live(fetches) \cup { NewFetch(Len(searches) + 1, zip, FALSE, TRUE, TRUE) }
    /\ Commit(RoutesAtSearch, SelectionAtSearch, deliveryType, Null, selectedRadius,
              drawnPolygonPath, lastPolygonSelectedRef,
              build = "draw" \/ circleCenter # Null)
    /\ UNCHANGED << probe, outcome, build, comparisonRoutes, showHeatMap, geocoding, clicks >>

\* the autocomplete hands over a place: its location and, when the place
\* has one, its postal code
onPlaceChanged(center, zip) ==
    /\ ~geocoding /\ ~loading
    /\ centerZip' = zip
    /\ geocodeError' = NoGeocodeError
    /\ Commit(routes, selectedRoutes, deliveryType, center, selectedRadius,
              drawnPolygonPath, lastPolygonSelectedRef, TRUE)
    /\ UNCHANGED << probe, outcome, build, comparisonRoutes, showHeatMap, loading, geocoding, error,
                    searches, fetches, clicks >>

\* "Find Routes": with coordinates from the autocomplete the radius search
\* starts at once, otherwise the typed address is geocoded first
geocodeAddress ==
    /\ ~geocoding /\ ~loading
    /\ geocoding' = TRUE
    /\ IF circleCenter # Null
         THEN /\ StartRadiusSearch("geocode", circleCenter, selectedRadius,
                                   centerZip, drawnPolygonPath)
              /\ UNCHANGED centerZip
         ELSE /\ Len(searches) < SearchBound
              /\ geocodeError' = NoGeocodeError
              /\ searches' = Append(searches,
                    NewSearch("radius", "geocode", "geocode", "", {}))
              /\ UNCHANGED << probe, outcome, build, routes, selectedRoutes, deliveryType,
                              circleCenter, centerZip, selectedRadius,
                              drawnPolygonPath, lastPolygonSelectedRef, loading,
                              error, fetches >>
    /\ UNCHANGED << comparisonRoutes, showHeatMap, clicks >>

\* the geocoder answers the typed address of search s
GeocodeDone(s, found, center, zip) ==
    /\ s \in DOMAIN searches
    /\ searches[s].phase = "geocode"
    /\ IF found
         THEN /\ centerZip' = IF zip # "" THEN zip ELSE centerZip
              /\ loading' = TRUE
              /\ geocodeError' = NoGeocodeError
              /\ error' = ""
              /\ searches' = [searches EXCEPT ![s].phase = "discover",
                                               ![s].knownCenterZip = zip]
              /\ fetches' = fetches \cup
                    ( IF zip # "" THEN { NewFetch(s, zip, TRUE, FALSE, FALSE) }
                                  ELSE {} )
              /\ Commit(RoutesAtSearch, SelectionAtSearch, deliveryType, center,
                        selectedRadius, drawnPolygonPath, lastPolygonSelectedRef, TRUE)
              /\ UNCHANGED geocoding
         ELSE /\ geocodeError' = [kind |-> "not_found", ok |-> 0, total |-> 0, failed |-> 0]
              /\ geocoding' = FALSE
              /\ searches' = [searches EXCEPT ![s].phase = "done"]
              /\ Commit(routes, selectedRoutes, deliveryType, Null, selectedRadius,
                        drawnPolygonPath, lastPolygonSelectedRef, circleCenter # Null)
              /\ UNCHANGED << centerZip, loading, error, fetches >>
    /\ UNCHANGED << probe, outcome, build, comparisonRoutes, showHeatMap, clicks >>

\* the radius select, with the effect on [selectedRadius] that re-fetches
\* when a circle center exists
setSelectedRadius(radius) ==
    /\ ~geocoding /\ ~loading
    /\ radius # selectedRadius
    /\ IF circleCenter # Null
         THEN StartRadiusSearch("effect", circleCenter, radius, centerZip,
                                drawnPolygonPath)
         ELSE /\ Commit(routes, selectedRoutes, deliveryType, circleCenter, radius,
                        drawnPolygonPath, lastPolygonSelectedRef, TRUE)
              /\ UNCHANGED << probe, outcome, build, loading, error, geocodeError, searches, fetches >>
    /\ UNCHANGED << comparisonRoutes, centerZip, showHeatMap, geocoding, clicks >>

\* a discovery that fetches every ZIP found, the known center ZIP again
DiscoveryDoneRefetchingCenter(s, found) ==
    /\ s \in DOMAIN searches
    /\ searches[s].phase = "discover"
    /\ LET known     == searches[s].knownCenterZip
           all       == found \cup (IF known # "" THEN {known} ELSE {})
           remaining == all
           issued    == fetches \cup
                        { NewFetch(s, z, FALSE, FALSE, FALSE) : z \in remaining }
           withZips  == [searches EXCEPT ![s].allZipCodes = all]
       IN IF all = {}
            THEN /\ geocodeError' = [kind |-> "no_zips", ok |-> 0, total |-> 0, failed |-> 0]
                 /\ loading' = FALSE
                 /\ geocoding' = IF searches[s].origin = "geocode" THEN FALSE ELSE geocoding
                 /\ searches' = [withZips EXCEPT ![s].phase = "done"]
                 /\ UNCHANGED fetches
            ELSE IF AllSettled(issued, s)
              THEN /\ geocodeError' = RadiusOutcome(issued, s, Cardinality(all), geocodeError)
                   /\ loading' = FALSE
                   /\ geocoding' = IF searches[s].origin = "geocode" THEN FALSE ELSE geocoding
                   /\ searches' = [withZips EXCEPT ![s].phase = "done"]
                   /\ fetches' = issued
              ELSE /\ searches' = [withZips EXCEPT ![s].phase = "fetch"]
                   /\ fetches' = issued
                   /\ UNCHANGED << geocodeError, loading, geocoding >>
    /\ UNCHANGED << probe, outcome, build, routes, selectedRoutes, comparisonRoutes, deliveryType,
                    circleCenter, centerZip, selectedRadius, drawnPolygonPath,
                    lastPolygonSelectedRef, showHeatMap, error, clicks >>

\* fetchNearbyZipCodes of search s returns the ZIPs the geocoder found
DiscoveryDone(s, found) ==
    /\ s \in DOMAIN searches
    /\ searches[s].phase = "discover"
    /\ LET known     == searches[s].knownCenterZip
           all       == found \cup (IF known # "" THEN {known} ELSE {})
           remaining == all \ {known}
           issued    == fetches \cup
                        { NewFetch(s, z, FALSE, FALSE, FALSE) : z \in remaining }
           withZips  == [searches EXCEPT ![s].allZipCodes = all]
       IN IF all = {}
            THEN /\ geocodeError' = [kind |-> "no_zips", ok |-> 0, total |-> 0, failed |-> 0]
                 /\ loading' = FALSE
                 /\ geocoding' = IF searches[s].origin = "geocode" THEN FALSE ELSE geocoding
                 /\ searches' = [withZips EXCEPT ![s].phase = "done"]
                 /\ UNCHANGED fetches
            ELSE IF AllSettled(issued, s)
              THEN /\ geocodeError' = RadiusOutcome(issued, s, Cardinality(all), geocodeError)
                   /\ loading' = FALSE
                   /\ geocoding' = IF searches[s].origin = "geocode" THEN FALSE ELSE geocoding
                   /\ searches' = [withZips EXCEPT ![s].phase = "done"]
                   /\ fetches' = issued
              ELSE /\ searches' = [withZips EXCEPT ![s].phase = "fetch"]
                   /\ fetches' = issued
                   /\ UNCHANGED << geocodeError, loading, geocoding >>
    /\ UNCHANGED << probe, outcome, build, routes, selectedRoutes, comparisonRoutes, deliveryType,
                    circleCenter, centerZip, selectedRadius, drawnPolygonPath,
                    lastPolygonSelectedRef, showHeatMap, error, clicks >>

\* what follows the settling of fetch f (now g): a ZIP search is over; a
\* radius search that was waiting on its last fetch reports and ends
AfterFetch(f, g, loadingNow) ==
    LET s      == f.search
        after  == (fetches \ {f}) \cup {g}
        ends   == searches[s].kind = "radius" /\ searches[s].phase = "fetch"
                  /\ AllSettled(after, s)
    IN  /\ fetches' = after
        /\ searches' = IF searches[s].kind = "zip" \/ ends
                         THEN [searches EXCEPT ![s].phase = "done"]
                         ELSE searches
        /\ geocodeError' = IF ends THEN RadiusOutcome(after, s, Cardinality(searches[s].allZipCodes),
                                                      geocodeError)
                           ELSE geocodeError
        /\ loading' = IF ends THEN FALSE ELSE loadingNow
        /\ geocoding' = IF ends /\ searches[s].origin = "geocode" THEN FALSE
                        ELSE geocoding

\* the response of fetch f arrives with a feature list: transform and merge
FetchSucceed(f, features) ==
    /\ f \in fetches
    /\ f.status = "pending"
    /\ AfterFetch(f, [f EXCEPT !.status = "fulfilled", !.features = features],
                  IF f.setLoadingState THEN FALSE ELSE loading)
    /\ Commit(MergeRoutes(routes, f.zip, features), selectedRoutes, deliveryType,
              circleCenter, selectedRadius, drawnPolygonPath,
              lastPolygonSelectedRef, TRUE)
    /\ UNCHANGED << probe, outcome, build, comparisonRoutes, centerZip, showHeatMap, error, clicks >>

\* a catch block that empties the catalog whatever the caller asked
RoutesAfterFailureClearing(prev, clearOnError) == <<>>

\* the catch block of fetchEDDMRoutes: only a single-ZIP search empties the
\* catalog
RoutesAfterFailure(prev, clearOnError) == IF clearOnError THEN <<>> ELSE prev

\* the request of fetch f fails, or its response carries no features field
FetchFail(f) ==
    /\ f \in fetches
    /\ f.status = "pending"
    /\ AfterFetch(f, [f EXCEPT !.status = "rejected"],
                  IF f.setLoadingState THEN FALSE ELSE loading)
    /\ error' = IF f.clearOnError THEN "fetch_failed" ELSE error
    /\ Commit(RoutesAfterFailure(routes, f.clearOnError), selectedRoutes,
              deliveryType, circleCenter, selectedRadius, drawnPolygonPath,
              lastPolygonSelectedRef, f.clearOnError)
    /\ UNCHANGED << probe, outcome, build, comparisonRoutes, centerZip, showHeatMap, clicks >>

(***************************************************************************)
(* Drawn polygon.                                                          *)
(***************************************************************************)
\* the DrawingManager completes a polygon with the given path
handlePolygonComplete(path) ==
    /\ IF routes = <<>>
         THEN StartRadiusSearch("polygon", Null, selectedRadius, "", path)
         ELSE LET Hit(r) == routeIntersectsPolygon(r, path)
                  routeIds == Ids(SelectSeq(filteredRoutes, Hit))
              IN /\ Commit(routes, Dedup(selectedRoutes \o routeIds), deliveryType,
                           circleCenter, selectedRadius, path,
                           lastPolygonSelectedRef, TRUE)
                 /\ UNCHANGED << probe, outcome, build, loading, error, geocodeError, searches,
                                 fetches >>
    /\ UNCHANGED << comparisonRoutes, centerZip, showHeatMap, geocoding, clicks >>

\* the "Clear Area" button, shown while a path exists
clearDrawnPolygon ==
    /\ drawnPolygonPath # Null
    /\ Commit(routes, selectedRoutes, deliveryType, circleCenter, selectedRadius,
              Null, Null, TRUE)
    /\ UNCHANGED << probe, outcome, build, comparisonRoutes, centerZip, showHeatMap, loading,
                    geocoding, error, geocodeError, searches, fetches, clicks >>

(***************************************************************************)
(* Selection, comparison, delivery type.                                   *)
(***************************************************************************)
\* the updater of toggleRouteSelection
Toggled(prev, routeId) ==
    IF Includes(prev, routeId) THEN FilterSeq(prev, Range(prev) \ {routeId})
    ELSE Append(prev, routeId)

SelectionOnly(sel) ==
    /\ selectedRoutes' = sel
    /\ UNCHANGED << probe, outcome, build, routes, comparisonRoutes, deliveryType, circleCenter,
                    centerZip, selectedRadius, drawnPolygonPath,
                    lastPolygonSelectedRef, showHeatMap, loading, geocoding, error,
                    geocodeError, searches, fetches >>

\* a click on a row of the route list, which shows filteredRoutes
ToggleFromList(i) ==
    /\ clicks < MaxClicks
    /\ i \in DOMAIN filteredRoutes
    /\ clicks' = clicks + 1
    /\ SelectionOnly(Toggled(selectedRoutes, filteredRoutes[i].id))

\* the routes the map draws and whether a click on one is handled
MapRoutes ==
    IF drawnPolygonPath # Null /\ Len(drawnPolygonPath) >= 3 THEN filteredRoutes
    ELSE routes

Clickable(route) ==
    LET isSelected == Includes(selectedRoutes, route.id)
        isInRadius == circleCenter # Null /\ Includes(Ids(routesInRadius), route.id)
    IN IF showHeatMap /\ ~isSelected THEN TRUE
       ELSE IF circleCenter # Null THEN isSelected \/ isInRadius
       ELSE TRUE

\* a click on a route drawn on the map
ToggleFromMap(i) ==
    /\ clicks < MaxClicks
    /\ i \in DOMAIN MapRoutes
    /\ Clickable(MapRoutes[i])
    /\ clicks' = clicks + 1
    /\ SelectionOnly(Toggled(selectedRoutes, MapRoutes[i].id))

selectAllRoutesInRadius ==
    /\ Len(filteredRoutes) > 0
    /\ SelectionOnly(Ids(filteredRoutes))
    /\ UNCHANGED clicks

deselectAllRoutes ==
    /\ selectedRoutes # <<>>
    /\ SelectionOnly(<<>>)
    /\ UNCHANGED clicks

\* budget in dollars; the button is disabled without in-scope routes
optimizeForBudget(budget) ==
    /\ Len(filteredRoutes) > 0
    /\ IF budget < 100
         THEN SelectionOnly(selectedRoutes)
         ELSE \E selectedIds \in OptimizedSelections(filteredRoutes, deliveryType,
                                                       budget * 1000) :
                  SelectionOnly(selectedIds)
    /\ UNCHANGED clicks

\* the compare button of a row of the route list
toggleRouteComparison(i) ==
    /\ clicks < MaxClicks
    /\ i \in DOMAIN filteredRoutes
    /\ clicks' = clicks + 1
    /\ LET routeId == filteredRoutes[i].id
       IN comparisonRoutes' =
            IF Includes(comparisonRoutes, routeId)
              THEN FilterSeq(comparisonRoutes, Range(comparisonRoutes) \ {routeId})
            ELSE IF Len(comparisonRoutes) >= 3
              THEN Append(Tail(comparisonRoutes), routeId)
            ELSE Append(comparisonRoutes, routeId)
    /\ UNCHANGED << probe, outcome, build, routes, selectedRoutes, deliveryType, circleCenter,
                    centerZip, selectedRadius, drawnPolygonPath,
                    lastPolygonSelectedRef, showHeatMap, loading, geocoding, error,
                    geocodeError, searches, fetches >>

\* "Add All to Campaign" of the comparison modal, open with 2 or more routes
AddAllToCampaign ==
    /\ Len(comparisonRoutes) >= 2
    /\ SelectionOnly(Dedup(selectedRoutes \o comparisonRoutes))
    /\ UNCHANGED clicks

setDeliveryType(dtype) ==
    /\ Commit(routes, selectedRoutes, dtype, circleCenter, selectedRadius,
              drawnPolygonPath, lastPolygonSelectedRef, dtype # deliveryType)
    /\ dtype # deliveryType
    /\ UNCHANGED << probe, outcome, build, comparisonRoutes, centerZip, showHeatMap, loading,
                    geocoding, error, geocodeError, searches, fetches, clicks >>

\* the density-map button, shown while routes are loaded
toggleHeatMap ==
    /\ Len(routes) > 0
    /\ showHeatMap' = ~showHeatMap
    /\ UNCHANGED << probe, outcome, build, routes, selectedRoutes, comparisonRoutes, deliveryType,
                    circleCenter, centerZip, selectedRadius, drawnPolygonPath,
                    lastPolygonSelectedRef, loading, geocoding, error,
                    geocodeError, searches, fetches, clicks >>

(***************************************************************************)
(* The component with Draw-on-Map.                                         *)
(***************************************************************************)
Next ==
    \/ \E zip \in Zips : handleZipSearch(zip)
    \/ \E center \in Centers, zip \in Zips \cup {""} : onPlaceChanged(center, zip)
    \/ geocodeAddress
    \/ \E s \in DOMAIN searches, found \in BOOLEAN, center \in Centers,
          zip \in Zips \cup {""} : GeocodeDone(s, found, center, zip)
    \/ \E radius \in Radii : setSelectedRadius(radius)
    \/ \E s \in DOMAIN searches, found \in SUBSET Zips : DiscoveryDone(s, found)
    \/ \E f \in fetches, features \in Batches : FetchSucceed(f, features)
    \/ \E f \in fetches : FetchFail(f)
    \/ \E path \in Paths : handlePolygonComplete(path)
    \/ clearDrawnPolygon
    \/ \E i \in 1..4 : ToggleFromList(i)
    \/ \E i \in 1..4 : ToggleFromMap(i)
    \/ selectAllRoutesInRadius
    \/ deselectAllRoutes
    \/ \E budget \in Budgets : optimizeForBudget(budget)
    \/ \E i \in 1..4 : toggleRouteComparison(i)
    \/ AddAllToCampaign
    \/ \E dtype \in DeliveryTypes : setDeliveryType(dtype)
    \/ toggleHeatMap

Spec == Init /\ [][Next]_vars

(***************************************************************************)
(* The searches and fetches alone.  No search or fetch handler reads the   *)
(* selection clicks, the comparison list, the delivery type or the density *)
(* map, so the catalog behaves here exactly as under Next.                 *)
(***************************************************************************)
NextCatalog ==
    \/ \E zip \in Zips : handleZipSearch(zip)
    \/ \E zip \in {"", "33815"} : onPlaceChanged(<<0, 0>>, zip)
    \/ geocodeAddress
    \/ \E s \in DOMAIN searches, found \in BOOLEAN, zip \in {"", "33815"} :
          GeocodeDone(s, found, <<0, 0>>, zip)
    \/ \E radius \in Radii : setSelectedRadius(radius)
    \/ \E s \in DOMAIN searches, found \in SUBSET Zips : DiscoveryDone(s, found)
    \/ \E f \in fetches, features \in Batches : FetchSucceed(f, features)
    \/ \E f \in fetches : FetchFail(f)
    \/ handlePolygonComplete(PolygonA)
    \/ clearDrawnPolygon

SpecCatalog == Init /\ [][NextCatalog]_vars

(***************************************************************************)
(* EDDMMapper.js: the same handlers without Draw-on-Map, budget optimizer, *)
(* comparison and density map, and with searches that keep the catalog.    *)
(***************************************************************************)
NextAccumulate ==
    \/ \E zip \in Zips : handleZipSearch(zip)
    \/ \E zip \in {"", "33815"} : onPlaceChanged(<<0, 0>>, zip)
    \/ geocodeAddress
    \/ \E s \in DOMAIN searches, found \in BOOLEAN, zip \in {"", "33815"} :
          GeocodeDone(s, found, <<0, 0>>, zip)
    \/ \E radius \in Radii : setSelectedRadius(radius)
    \/ \E s \in DOMAIN searches, found \in SUBSET Zips : DiscoveryDone(s, found)
    \/ \E f \in fetches, features \in Batches : FetchSucceed(f, features)
    \/ \E f \in fetches : FetchFail(f)

SpecAccumulate == InitAccumulate /\ [][NextAccumulate]_vars

(***************************************************************************)
(* The whole component over one ZIP and one answer of the route service,   *)
(* which leaves room for every selection, region and delivery-type event.  *)
(***************************************************************************)
NextSelection ==
    \/ handleZipSearch("33815")
    \/ \E center \in Centers : onPlaceChanged(center, "33815")
    \/ geocodeAddress
    \/ \E s \in DOMAIN searches, found \in BOOLEAN :
          GeocodeDone(s, found, <<0, 0>>, "33815")
    \/ \E radius \in Radii : setSelectedRadius(radius)
    \/ \E s \in DOMAIN searches : DiscoveryDone(s, {"33815"})
    \/ \E f \in fetches : FetchSucceed(f, <<FeatureA, FeatureB>>)
    \/ \E f \in fetches : FetchFail(f)
    \/ \E path \in Paths : handlePolygonComplete(path)
    \/ clearDrawnPolygon
    \/ \E i \in 1..2 : ToggleFromList(i)
    \/ \E i \in 1..2 : ToggleFromMap(i)
    \/ selectAllRoutesInRadius
    \/ deselectAllRoutes
    \/ \E budget \in Budgets : optimizeForBudget(budget)
    \/ \E i \in 1..2 : toggleRouteComparison(i)
    \/ AddAllToCampaign
    \/ \E dtype \in DeliveryTypes : setDeliveryType(dtype)
    \/ toggleHeatMap

SpecSelection == Init /\ [][NextSelection]_vars

(***************************************************************************)
(* The region and delivery-type events alone, with the searches they may   *)
(* start.  filteredRoutes reads the catalog, the delivery type, the circle *)
(* and the drawn path, none of which a selection click changes.            *)
(***************************************************************************)
NextRegion ==
    \/ handleZipSearch("33815")
    \/ \E center \in Centers : onPlaceChanged(center, "33815")
    \/ geocodeAddress
    \/ \E s \in DOMAIN searches, found \in BOOLEAN :
          GeocodeDone(s, found, <<0, 0>>, "33815")
    \/ \E radius \in Radii : setSelectedRadius(radius)
    \/ \E s \in DOMAIN searches : DiscoveryDone(s, {"33815"})
    \/ \E f \in fetches : FetchSucceed(f, <<FeatureA, FeatureB>>)
    \/ \E f \in fetches : FetchFail(f)
    \/ \E path \in Paths : handlePolygonComplete(path)
    \/ clearDrawnPolygon
    \/ \E dtype \in DeliveryTypes : setDeliveryType(dtype)

SpecRegion == Init /\ [][NextRegion]_vars

(***************************************************************************)
(* The intersection predicates on their own: a route, a polygon path, a    *)
(* circle center and a radius are drawn, then each predicate is evaluated. *)
(***************************************************************************)
\* a feature whose geometry has no path
FeatureNoRings == [ CRID_ID |-> "C003", RES_CNT |-> 200, BUS_CNT |-> 10, paths |-> << >> ]

\* a feature whose only path has no point
FeatureEmptyRing == [ CRID_ID |-> "C004", RES_CNT |-> 200, BUS_CNT |-> 10,
                      paths |-> << << >> >> ]

\* a feature on a grid of tenths of a mile: one vertex 4.9 miles from the
\* origin, the centroid 6.2 miles from it
FeatureNearEdge == [ CRID_ID |-> "C006", RES_CNT |-> 200, BUS_CNT |-> 10,
                     paths |-> << << <<49, 0>>, <<62, 0>>, <<75, 0>> >> >> ]

ProbedRoutes ==
    Range(transformedRoutes("33815",
            << FeatureA, FeatureB, FeatureC, FeatureNoRings, FeatureEmptyRing,
               FeatureNearEdge >>))

\* the radii of the select, and 5 miles on the grid of tenths of a mile
ProbedRadii == Radii \cup {50}

ProbedPolygons ==
    { Null, << <<1, 1>> >>, PolygonDegenerate, PolygonA,
      << <<0, 0>>, <<0, 10>>, <<10, 0>> >> }

InitGeometry ==
    /\ build = "draw"
    /\ InitState
    /\ probe \in [ of : {"intersection"}, route : ProbedRoutes,
                   polygon : ProbedPolygons, center : Centers, radius : ProbedRadii ]
    /\ outcome = NoOutcome

ComponentUnchanged ==
    UNCHANGED << build, routes, selectedRoutes, comparisonRoutes, deliveryType,
                 circleCenter, centerZip, selectedRadius, drawnPolygonPath,
                 lastPolygonSelectedRef, showHeatMap, loading, geocoding, error,
                 geocodeError, searches, fetches, clicks >>

EvaluateRouteIntersectsRadius ==
    /\ probe.of = "intersection"
    /\ outcome' = [ by |-> "routeIntersectsRadius",
                    value |-> routeIntersectsRadius(probe.route, probe.center[1],
                                                    probe.center[2], probe.radius) ]
    /\ UNCHANGED probe
    /\ ComponentUnchanged

EvaluateRouteIntersectsPolygon ==
    /\ probe.of = "intersection"
    /\ outcome' = [ by |-> "routeIntersectsPolygon",
                    value |-> routeIntersectsPolygon(probe.route, probe.polygon) ]
    /\ UNCHANGED probe
    /\ ComponentUnchanged

\* the test filteredRoutes applies to a route's centroid
EvaluateIsPointInPolygonSimple ==
    /\ probe.of = "intersection"
    /\ outcome' = [ by |-> "isPointInPolygonSimple",
                    value |-> isPointInPolygonSimple(probe.route.center, probe.polygon) ]
    /\ UNCHANGED probe
    /\ ComponentUnchanged

NextGeometry ==
    \/ EvaluateRouteIntersectsRadius
    \/ EvaluateRouteIntersectsPolygon
    \/ EvaluateIsPointInPolygonSimple

SpecGeometry == InitGeometry /\ [][NextGeometry]_vars

(***************************************************************************)
(* The pricing functions on their own: an address total is drawn, then the *)
(* estimate, the optimizer's cost or the turnkey rate is computed for it.  *)
(***************************************************************************)
Quantities ==
    { 0, 1, 100, 250, 450, 499, 500, 501, 550, 600, 900, 999, 1000, 1001, 1150,
      2000, 2450, 2499, 2500, 2501, 4999, 5000, 5001, 7500, 9999, 10000, 10001, 25000 }

InitPricing ==
    /\ build = "draw"
    /\ InitState
    /\ probe \in [ of : {"pricing"}, addresses : Quantities ]
    /\ outcome = NoOutcome

\* the estimate of the order panel
EvaluateCalculateTotal ==
    /\ probe.of = "pricing"
    /\ outcome' = [ by |-> "calculateTotal", value |-> calculateTotalFor(probe.addresses) ]
    /\ UNCHANGED probe
    /\ ComponentUnchanged

\* the optimizer's cost of a single route or of a running total
EvaluateCalculateCostForAddresses ==
    /\ probe.of = "pricing"
    /\ outcome' = [ by |-> "calculateCostForAddresses",
                    printRate |-> OptimizerPrintRate(probe.addresses),
                    value |-> calculateCostForAddresses(probe.addresses) ]
    /\ UNCHANGED probe
    /\ ComponentUnchanged

EvaluateGetTurnkeyRatePerPiece ==
    /\ probe.of = "pricing"
    /\ outcome' = [ by |-> "getTurnkeyRatePerPiece",
                    value |-> getTurnkeyRatePerPiece(probe.addresses) ]
    /\ UNCHANGED probe
    /\ ComponentUnchanged

EvaluateCalculateTotalTurnkey ==
    /\ probe.of = "pricing"
    /\ outcome' = [ by |-> "calculateTotalTurnkey",
                    value |-> calculateTotalTurnkey(probe.addresses) ]
    /\ UNCHANGED probe
    /\ ComponentUnchanged

NextPricing ==
    \/ EvaluateCalculateTotal
    \/ EvaluateCalculateCostForAddresses
    \/ EvaluateGetTurnkeyRatePerPiece
    \/ EvaluateCalculateTotalTurnkey

SpecPricing == InitPricing /\ [][NextPricing]_vars

(***************************************************************************)
(* The budget optimizer as a function of the in-scope list, the delivery   *)
(* type and the budget.                                                    *)
(***************************************************************************)
\* a route without deliveries and a route large enough for the second tier
FeatureVacant == [ CRID_ID |-> "C004", RES_CNT |-> 0, BUS_CNT |-> 0,
                   paths |-> << << <<1, 1>>, <<1, 2>>, <<2, 1>> >> >> ]

FeatureLarge == [ CRID_ID |-> "C005", RES_CNT |-> 1200, BUS_CNT |-> 0,
                  paths |-> << << <<3, 3>>, <<3, 7>>, <<7, 3>> >> >> ]

OptimizerFeatures == { FeatureA, FeatureB, FeatureC, FeatureVacant, FeatureLarge }

\* responses of up to MaxOptimized distinct features
OptimizerBatches ==
    UNION { { fs \in [1..n -> OptimizerFeatures] :
                \A i, j \in 1..n : i # j => fs[i] # fs[j] } : n \in 0..MaxOptimized }

\* budgets handed to optimizeForBudget, in dollars
OptimizerBudgets == { 0, 50, 99, 100, 200, 400, 600, 1000 }

InitOptimizer ==
    /\ build = "draw"
    /\ InitState
    /\ \E fs \in OptimizerBatches, dtype \in DeliveryTypes, budget \in OptimizerBudgets :
          probe = [ of |-> "optimizer",
                    filteredRoutes |-> DeliveryFiltered(transformedRoutes("33815", fs), dtype),
                    deliveryType |-> dtype,
                    budget |-> budget,
                    selectedRoutes |-> <<>> ]
    /\ outcome = NoOutcome

\* one call of optimizeForBudget: the sorted array it walked and the selection
\* it leaves; `set` tells whether setSelectedRoutes was reached
EvaluateOptimizeForBudget ==
    /\ probe.of = "optimizer"
    /\ IF Len(probe.filteredRoutes) = 0 \/ probe.budget < 100
         THEN outcome' = [ by |-> "optimizeForBudget", set |-> FALSE,
                           routesWithValue |-> <<>>,
                           selectedRoutes |-> probe.selectedRoutes ]
         ELSE \E sorted \in routesWithValueOf(probe.filteredRoutes, probe.deliveryType) :
                outcome' = [ by |-> "optimizeForBudget", set |-> TRUE,
                             routesWithValue |-> sorted,
                             selectedRoutes |-> SelectionFrom(sorted, probe.budget * 1000) ]
    /\ UNCHANGED probe
    /\ ComponentUnchanged

NextOptimizer == EvaluateOptimizeForBudget

SpecOptimizer == InitOptimizer /\ [][NextOptimizer]_vars

(***************************************************************************)
(* The selection prune effect as a function of the selection and the       *)
(* in-scope list; the effect runs again when filteredRoutes is recomputed. *)
(***************************************************************************)
InitPrune ==
    /\ build = "draw"
    /\ InitState
    /\ \E picked \in OptimizerBatches, inScope \in OptimizerBatches :
          probe = [ of |-> "prune",
                    selectedRoutes |-> Ids(transformedRoutes("33815", picked)),
                    filteredRoutes |-> transformedRoutes("33815", inScope) ]
    /\ outcome = NoOutcome

\* the effect runs on the selection
EvaluatePruneSelection ==
    /\ probe.of = "prune"
    /\ outcome.by = "none"
    /\ outcome' = [ by |-> "pruneSelection", runs |-> 1,
                    before |-> probe.selectedRoutes,
                    value |-> pruneSelection(probe.selectedRoutes, probe.filteredRoutes) ]
    /\ UNCHANGED probe
    /\ ComponentUnchanged

\* filteredRoutes is recomputed with the same content and the effect runs on
\* the selection the first run left
EvaluatePruneSelectionAgain ==
    /\ probe.of = "prune"
    /\ outcome.by = "pruneSelection"
    /\ outcome.runs = 1
    /\ outcome' = [ by |-> "pruneSelection", runs |-> 2,
                    before |-> outcome.value,
                    value |-> pruneSelection(outcome.value, probe.filteredRoutes) ]
    /\ UNCHANGED probe
    /\ ComponentUnchanged

NextPrune ==
    \/ EvaluatePruneSelection
    \/ EvaluatePruneSelectionAgain

SpecPrune == InitPrune /\ [][NextPrune]_vars

(***************************************************************************)
(* calculateROI on its own: a campaign (address total and cost), an        *)
(* industry and overrides are drawn, then the scenarios are computed.      *)
(***************************************************************************)
Industries == DOMAIN INDUSTRY_BENCHMARKS

CampaignSizes == { 0, 500, 1000, 2000, 2500, 5000, 10000 }

\* campaigns as the planners hand them to the ROI calculator (the print
\* planner only above its minimum), the campaign of test-roi-simplified.js,
\* and direct calls without cost or without addresses
Campaigns ==
    { [ pricing |-> "print", totalAddresses |-> q,
        campaignCost |-> Rat(calculateTotalFor(q).total, 1000) ] :
          q \in { n \in CampaignSizes : ~calculateTotalFor(n).belowMinimum } }
    \cup
    { [ pricing |-> "turnkey", totalAddresses |-> q,
        campaignCost |-> Rat(calculateTotalTurnkey(q).total, 1000) ] : q \in CampaignSizes }
    \cup
    { [ pricing |-> "tested", totalAddresses |-> 5000, campaignCost |-> Rat(1250, 1) ],
      [ pricing |-> "direct", totalAddresses |-> 5000, campaignCost |-> Zero ],
      [ pricing |-> "direct", totalAddresses |-> 0, campaignCost |-> Rat(1250, 1) ] }

\* no overrides, a conversion rate of 0 in every scenario, a margin of 0
OverridesDrawn ==
    { NoOverrides,
      [ NoOverrides EXCEPT !.conversionRate = { Rates(0, 0, 0, 100) } ],
      [ NoOverrides EXCEPT !.economics.margin = { Zero } ] }

InitROI ==
    /\ build = "draw"
    /\ InitState
    /\ \E campaign \in Campaigns, industry \in Industries, overrides \in OverridesDrawn :
          probe = [ of |-> "roi", campaign |-> campaign, industry |-> industry,
                    overrides |-> overrides ]
    /\ outcome = NoOutcome

EvaluateCalculateROI ==
    /\ probe.of = "roi"
    /\ outcome' = [ by |-> "calculateROI",
                    value |-> calculateROI(Rat(probe.campaign.totalAddresses, 1),
                                           probe.campaign.campaignCost,
                                           probe.industry, probe.overrides) ]
    /\ UNCHANGED probe
    /\ ComponentUnchanged

NextROI == EvaluateCalculateROI

SpecROI == InitROI /\ [][NextROI]_vars

(***************************************************************************)
(* Overlapping searches in the Draw-on-Map planner: the search buttons are *)
(* disabled while loading, but a polygon can be completed at any time, and *)
(* the loading flag falls when a ZIP fetch settles; a second search can    *)
(* start while fetches of the first are in flight.                         *)
(***************************************************************************)
InitOverlap ==
    /\ build = "draw"
    /\ InitState
    /\ probe = [ of |-> "overlap" ]
    /\ outcome = NoOutcome

NextOverlap ==
    \/ \E zip \in Zips : handleZipSearch(zip)
    \/ onPlaceChanged(<<0, 0>>, "33815")
    \/ \E radius \in Radii : setSelectedRadius(radius)
    \/ \E s \in DOMAIN searches, found \in SUBSET Zips : DiscoveryDone(s, found)
    \/ \E f \in fetches, features \in Batches : FetchSucceed(f, features)
    \/ \E f \in fetches : FetchFail(f)
    \/ handlePolygonComplete(PolygonA)

SpecOverlap == InitOverlap /\ [][NextOverlap]_vars

(***************************************************************************)
(* Lead capture (EDDMMapper.js): the four forms post the lead to the       *)
(* webhook when one is configured and then push it on the 'eddm-leads'     *)
(* list of localStorage.  A handler runs up to its await of the webhook    *)
(* fetch and resumes when the fetch settles; without a webhook URL it runs *)
(* to its end at once.  The submit buttons are disabled while submitting.  *)
(* The state is kept in outcome: the ids handed out, the handler awaiting  *)
(* the webhook, the leads the webhook accepted (response.ok), the          *)
(* 'eddm-leads' list, and the alerts shown.                                *)
(***************************************************************************)
InitLeads ==
    /\ build = "accumulate"
    /\ InitState
    /\ \E webhookUrl \in BOOLEAN : probe = [ of |-> "leads", webhookUrl |-> webhookUrl ]
    /\ outcome = [ by |-> "leads", submitted |-> 0, awaiting |-> << >>,
                   submitting |-> FALSE, submissionError |-> "",
                   webhook |-> {}, leads |-> << >>, alerts |-> << >> ]

\* handleSubmitQuote from the settling of the webhook fetch on: response is
\* "none" without a webhook URL, "ok", "notOk" (a status outside 200-299) or
\* "throws" (network error or timeout); stored is whether the localStorage
\* write went through
SubmitQuoteResumed(id, response, stored) ==
    LET webhookSuccess == response = "ok"
        saved == IF stored THEN Append(outcome.leads, id) ELSE outcome.leads
    IN  outcome' =
          IF ~stored /\ ~webhookSuccess
          THEN [ outcome EXCEPT !.awaiting = << >>, !.submitting = FALSE,
                                !.submissionError = "Unable to save your quote request" ]
          ELSE [ outcome EXCEPT !.awaiting = << >>, !.submitting = FALSE,
                                !.submissionError = "",
                                !.webhook = IF webhookSuccess THEN @ \cup { id } ELSE @,
                                !.leads = saved,
                                !.alerts = Append(@, [ id |-> id,
                                    text |-> IF webhookSuccess THEN "Quote request received"
                                             ELSE "Quote request saved" ]) ]

\* handleEmailEstimate, handleSaveCampaign and handleExitIntentCapture from
\* the settling of the webhook fetch on: the response is not looked at, a
\* failed localStorage write is logged, and the alert is shown in any case
CaptureResumed(id, response, stored, text) ==
    outcome' = [ outcome EXCEPT !.awaiting = << >>, !.submitting = FALSE,
                                !.webhook = IF response = "ok" THEN @ \cup { id } ELSE @,
                                !.leads = IF stored THEN Append(@, id) ELSE @,
                                !.alerts = Append(@, [ id |-> id, text |-> text ]) ]

LeadResumed(handler, id, response, stored) ==
    CASE handler = "handleSubmitQuote" -> SubmitQuoteResumed(id, response, stored)
      [] handler = "handleEmailEstimate" -> CaptureResumed(id, response, stored, "Estimate sent")
      [] handler = "handleSaveCampaign" -> CaptureResumed(id, response, stored, "Campaign saved")
      [] handler = "handleExitIntentCapture" ->
             CaptureResumed(id, response, stored, "We'll email your estimate shortly")

\* a form is submitted: the handler builds the lead and either awaits the
\* webhook or, without a webhook URL, goes on to localStorage
LeadSubmitted(handler) ==
    /\ probe.of = "leads"
    /\ ~outcome.submitting
    /\ outcome.submitted < MaxLeads
    /\ LET id == outcome.submitted + 1
       IN  IF probe.webhookUrl
           THEN outcome' = [ outcome EXCEPT !.submitted = id, !.submitting = TRUE,
                                            !.submissionError = "",
                                            !.awaiting = << [ handler |-> handler, id |-> id ] >> ]
           ELSE \E stored \in BOOLEAN :
                  LeadResumed(handler, id, "none", stored)
                      /\ outcome'.submitted = id
    /\ UNCHANGED probe
    /\ ComponentUnchanged

handleSubmitQuote == LeadSubmitted("handleSubmitQuote")

handleEmailEstimate == LeadSubmitted("handleEmailEstimate")

handleSaveCampaign == LeadSubmitted("handleSaveCampaign")

handleExitIntentCapture == LeadSubmitted("handleExitIntentCapture")

\* the webhook fetch settles and the awaiting handler runs to its end
WebhookSettled ==
    /\ probe.of = "leads"
    /\ outcome.awaiting # << >>
    /\ \E response \in { "ok", "notOk", "throws" }, stored \in BOOLEAN :
          LeadResumed(outcome.awaiting[1].handler, outcome.awaiting[1].id, response, stored)
    /\ UNCHANGED probe
    /\ ComponentUnchanged

NextLeads ==
    \/ handleSubmitQuote
    \/ handleEmailEstimate
    \/ handleSaveCampaign
    \/ handleExitIntentCapture
    \/ WebhookSettled

SpecLeads == InitLeads /\ [][NextLeads]_vars

(***************************************************************************)
(* Properties of the route catalog.                                        *)
(***************************************************************************)
RoutesOfZip(rs, zip) == { r \in Range(rs) : r.zipCode = zip }

RoutesOfOtherZips(rs, zip) ==
    LET Other(r) == r.zipCode # zip IN SelectSeq(rs, Other)

\* in this step the response of pending fetch f arrives and is recorded as g
Completes(f, g) ==
    /\ f.status = "pending"
    /\ g.status = "fulfilled"
    /\ g = [f EXCEPT !.status = "fulfilled", !.features = g.features]
    /\ f \notin fetches'

\* in this step pending fetch f fails
Fails(f) ==
    /\ f.status = "pending"
    /\ [f EXCEPT !.status = "rejected"] \in fetches'
    /\ f \notin fetches'

\* C1: a successful fetch completion for ZIP Z leaves the catalog holding
\* exactly the newly fetched routes for Z, and leaves every entry of another
\* ZIP present and unchanged.
C1_MergeFrame ==
    [][ \A f \in fetches, g \in fetches' :
          Completes(f, g) =>
             /\ RoutesOfZip(routes', f.zip) = Range(transformedRoutes(f.zip, g.features))
             /\ RoutesOfOtherZips(routes', f.zip) = RoutesOfOtherZips(routes, f.zip) ]_vars

\* ZIP Z was fetched twice with different answers, the catalog holds the
\* later answer for Z, and routes of another ZIP are still there
C1_Witness ==
    \E f, g \in fetches :
       /\ f.zip = g.zip /\ f.search # g.search
       /\ f.status = "fulfilled" /\ g.status = "fulfilled"
       /\ f.features # g.features
       /\ f.features # <<>>
       /\ RoutesOfZip(routes, g.zip) = Range(transformedRoutes(g.zip, g.features))
       /\ \E r \in Range(routes) : r.zipCode # g.zip

\* search s is the latest one, and no earlier search was still running
\* when it started: nothing but its own fetches has touched the catalog
Undisturbed(s) == s = Len(searches) /\ ~searches[s].concurrent

\* a radius search that issued its fetches and saw them all settle
SettledRadiusSearch(s) ==
    /\ searches[s].kind = "radius"
    /\ searches[s].phase = "done"
    /\ searches[s].allZipCodes # {}
    /\ Undisturbed(s)

Fulfilled(s) == { f \in FetchesOf(fetches, s) : f.status = "fulfilled" }

Rejected(s) == { f \in FetchesOf(fetches, s) : f.status = "rejected" }

\* C2: in a multi-ZIP radius search where some fetches fail and others
\* succeed, once all have settled the catalog contains the routes of every
\* ZIP whose fetch succeeded; no failure in the batch cleared them.
C2_PartialFailureKeepsSuccesses ==
    \A s \in DOMAIN searches :
       SettledRadiusSearch(s) /\ Rejected(s) # {} =>
          \A f \in Fulfilled(s) :
             Range(transformedRoutes(f.zip, f.features)) \subseteq Range(routes)

\* a settled radius search with a failed fetch and a successful one whose
\* routes are in the catalog
C2_Witness ==
    \E s \in DOMAIN searches :
       /\ SettledRadiusSearch(s)
       /\ Rejected(s) # {}
       /\ \E f \in Fulfilled(s) :
             /\ f.features # <<>>
             /\ Range(transformedRoutes(f.zip, f.features)) \subseteq Range(routes)

\* C3: when one radius search fetches several distinct ZIPs concurrently,
\* the final catalog, as a set of routes, is the union of the fetched
\* batches whatever the order in which the fetches completed.
C3_MergesCommute ==
    \A s \in DOMAIN searches :
       SettledRadiusSearch(s) =>
          Range(routes) =
             UNION { Range(transformedRoutes(f.zip, f.features)) : f \in Fulfilled(s) }

\* a settled radius search whose fetches for two ZIPs both brought routes
C3_Witness ==
    \E s \in DOMAIN searches :
       /\ SettledRadiusSearch(s)
       /\ \E f, g \in Fulfilled(s) :
             /\ f.zip # g.zip
             /\ f.features # <<>> /\ g.features # <<>>
             /\ Range(transformedRoutes(f.zip, f.features)) \subseteq Range(routes)
             /\ Range(transformedRoutes(g.zip, g.features)) \subseteq Range(routes)

\* C4: a failed fetch for a ZIP leaves every catalog entry of a different
\* ZIP in place, also when it is a single-ZIP search made after routes of
\* other ZIPs were accumulated.
C4_FailureKeepsOtherZips ==
    [][ \A f \in fetches :
          Fails(f) => RoutesOfOtherZips(routes', f.zip) = RoutesOfOtherZips(routes, f.zip) ]_vars

NoDuplicateIds(rs) == \A i, j \in DOMAIN rs : i # j => rs[i].id # rs[j].id

\* C6: after any sequence of fetch completions, re-fetches of a ZIP
\* included, no two catalog entries have the same id.
C6_UniqueIds == NoDuplicateIds(routes)

\* the same batch merged under two ZIPs, after a ZIP was fetched twice
C6_Witness ==
    /\ \E i, j \in DOMAIN routes :
          /\ routes[i].zipCode # routes[j].zipCode
          /\ routes[i].coordinates = routes[j].coordinates
    /\ \E f, g \in fetches :
          /\ f.zip = g.zip /\ f.search # g.search
          /\ f.status = "fulfilled" /\ g.status = "fulfilled"
          /\ f.features # <<>> /\ g.features # <<>>

(***************************************************************************)
(* Properties of the selection and of the region filter.                   *)
(***************************************************************************)
\* C5: after any sequence of user and fetch events, every selected route id
\* is the id of a route that passes the active region filter and the
\* delivery-type filter.
C5_SelectionInScope == Range(selectedRoutes) \subseteq Range(Ids(filteredRoutes))

PolygonActive == drawnPolygonPath # Null /\ Len(drawnPolygonPath) >= 3

PassesDelivery(r) ==
    \/ deliveryType = "all"
    \/ deliveryType = "residential" /\ r.residential > 0
    \/ deliveryType = "business" /\ r.business > 0

\* C7: whenever a circle and a drawn polygon of 3 or more vertices are both
\* present, the in-scope routes are those the polygon filter alone leaves of
\* the delivery-type-filtered catalog; the circle has no influence.
C7_PolygonPrecedence ==
    circleCenter # Null /\ PolygonActive =>
       filteredRoutes = filteredRoutesOf(routes, deliveryType, Null, selectedRadius,
                                         drawnPolygonPath)

\* circle and polygon both present, with a route in scope that the circle
\* does not reach
C7_Witness ==
    /\ circleCenter # Null /\ PolygonActive
    /\ \E r \in Range(filteredRoutes) : r.id \notin Range(Ids(routesInRadius))

\* intersectsPolygon as the specification words it: the centroid is inside
\* the polygon, or a polygon vertex is inside one of the route's rings
IntersectsPolygonAsSpecified(route, polygon) ==
    \/ isPointInPolygonSimple(route.center, polygon)
    \/ \E k \in DOMAIN route.coordinates, v \in DOMAIN polygon :
          isPointInPolygonSimple(Pt(polygon[v]), route.coordinates[k])

\* C8 as claimed: with a polygon active, a route passing the delivery-type
\* filter is in scope exactly when its centroid is inside the polygon or a
\* polygon vertex lies inside one of its rings.
C8_InScopeIffIntersects ==
    PolygonActive =>
       \A r \in Range(routes) :
          PassesDelivery(r) =>
             ( r \in Range(filteredRoutes)
                 <=> IntersectsPolygonAsSpecified(r, drawnPolygonPath) )

\* C8 amended: with a polygon active, a route passing the delivery-type
\* filter is in scope exactly when its centroid is inside the polygon.
C8_InScopeIffCentroidInside ==
    PolygonActive =>
       \A r \in Range(routes) :
          PassesDelivery(r) =>
             ( r \in Range(filteredRoutes)
                 <=> isPointInPolygonSimple(r.center, drawnPolygonPath) )

\* a polygon is active; one route is in scope, and another that passes the
\* delivery-type filter and has a polygon vertex inside its ring is not
C8_Witness ==
    /\ PolygonActive
    /\ filteredRoutes # <<>>
    /\ \E r \in Range(routes) :
          /\ PassesDelivery(r)
          /\ r \notin Range(filteredRoutes)
          /\ IntersectsPolygonAsSpecified(r, drawnPolygonPath)

(***************************************************************************)
(* Properties of the intersection predicates.                              *)
(***************************************************************************)
DegeneratePolygon(polygon) == polygon = Null \/ Len(polygon) < 3

\* zero rings, or no point in any ring
DegenerateRoute(route) == Flat(route.coordinates) = <<>>

Evaluated == outcome.by # "none"

\* C9 as claimed: each route-intersection predicate returns false on
\* degenerate input, a polygon of fewer than 3 vertices or a route with zero
\* rings or zero points.
C9_DegenerateGivesFalse ==
    /\ Evaluated /\ outcome.by # "routeIntersectsRadius"
         /\ (DegeneratePolygon(probe.polygon) \/ DegenerateRoute(probe.route))
         => outcome.value = FALSE
    /\ Evaluated /\ outcome.by = "routeIntersectsRadius" /\ DegenerateRoute(probe.route)
         => outcome.value = FALSE

\* C9 amended: on a route with zero rings or zero points the predicates
\* return false, unless the polygon has fewer than 3 vertices; on such a
\* polygon the point-in-polygon test returns false and routeIntersectsPolygon
\* returns true, for every route.
C9_DegenerateOutcomes ==
    /\ Evaluated /\ outcome.by = "routeIntersectsRadius" /\ DegenerateRoute(probe.route)
         => outcome.value = FALSE
    /\ Evaluated /\ outcome.by = "isPointInPolygonSimple"
         /\ (DegeneratePolygon(probe.polygon) \/ DegenerateRoute(probe.route))
         => outcome.value = FALSE
    /\ Evaluated /\ outcome.by = "routeIntersectsPolygon"
         => IF DegeneratePolygon(probe.polygon) THEN outcome.value = TRUE
            ELSE DegenerateRoute(probe.route) => outcome.value = FALSE

\* routeIntersectsPolygon has answered for a route without points and a
\* path of two vertices
C9_Witness ==
    /\ outcome.by = "routeIntersectsPolygon"
    /\ DegenerateRoute(probe.route)
    /\ probe.polygon # Null /\ Len(probe.polygon) = 2

(***************************************************************************)
(* Properties of the pricing functions.                                    *)
(***************************************************************************)
\* the tiers a computation prices against
TiersOf(by) ==
    IF by \in {"getTurnkeyRatePerPiece", "calculateTotalTurnkey"}
      THEN TURNKEY_PRICING_TIERS ELSE printPricingTiers

\* C10: whenever a cost is computed for an address total below the lowest
\* tier's min, in the estimate or in the budget optimizer, the outcome is
\* the below-minimum state, never the quantity times the lowest tier's rate.
C10_BelowMinimumNeverPriced ==
    Evaluated /\ probe.addresses < TiersOf(outcome.by)[1].min =>
       /\ outcome.by = "calculateTotal"
       /\ outcome.value.belowMinimum

LowestMin(by) == TiersOf(by)[1].min

\* C11: for a tier table whose lowest tier has min m, the estimate of a
\* total of m - 1 or less is belowMinimum with minimumQuantity = m and no
\* cost fields, and the estimate of exactly m carries the lowest tier's rate.
C11_BelowMinimumBoundary ==
    /\ outcome.by \in {"calculateTotal", "calculateTotalTurnkey"}
         /\ probe.addresses < LowestMin(outcome.by)
         => /\ DOMAIN outcome.value = {"addresses", "belowMinimum", "minimumQuantity"}
            /\ outcome.value.belowMinimum
            /\ outcome.value.minimumQuantity = LowestMin(outcome.by)
            /\ outcome.value.addresses = probe.addresses
    /\ outcome.by = "calculateTotal" /\ probe.addresses = LowestMin(outcome.by)
         => /\ ~outcome.value.belowMinimum
            /\ outcome.value.printRate = printPricingTiers[1].rate
    /\ outcome.by = "calculateTotalTurnkey" /\ probe.addresses = LowestMin(outcome.by)
         => /\ ~outcome.value.belowMinimum
            /\ outcome.value.ratePerPiece = TURNKEY_PRICING_TIERS[1].rate

\* the print estimate has answered for one address less than the lowest
\* tier's min
C11_Witness ==
    /\ outcome.by = "calculateTotal"
    /\ probe.addresses = printPricingTiers[1].min - 1
    /\ outcome.value.belowMinimum

TierTables == { printPricingTiers, TURNKEY_PRICING_TIERS }

MatchingTiers(tiers, quantity) ==
    { i \in DOMAIN tiers : quantity >= tiers[i].min /\ quantity <= tiers[i].max }

\* ascending, each tier starting right after the one before, the last open
Contiguous(tiers) ==
    /\ \A i \in DOMAIN tiers : tiers[i].min <= tiers[i].max
    /\ \A i \in 1..(Len(tiers) - 1) : tiers[i + 1].min = tiers[i].max + 1
    /\ tiers[Len(tiers)].max = Infinity

\* C12: in the print and the turnkey tier table the tiers ascend without
\* gap or overlap, so a quantity at or above the lowest min matches exactly
\* one tier and a quantity below it matches none.
C12_ExactlyOneTier ==
    \A tiers \in TierTables :
       /\ Contiguous(tiers)
       /\ probe.of = "pricing" =>
            Cardinality(MatchingTiers(tiers, probe.addresses)) =
               IF probe.addresses >= tiers[1].min THEN 1 ELSE 0

\* the estimate has priced a quantity that starts a tier, at that tier's rate
C12_Witness ==
    /\ outcome.by = "calculateTotal"
    /\ probe.addresses = printPricingTiers[2].min
    /\ ~outcome.value.belowMinimum
    /\ outcome.value.printRate = printPricingTiers[2].rate

(***************************************************************************)
(* Properties of the budget optimizer.                                     *)
(***************************************************************************)
Optimized == outcome.by = "optimizeForBudget" /\ outcome.set

\* tiered cost of the summed address counts of the selection left behind
SelectionCost ==
    calculateCostForAddresses(
        totalAddressesOf(probe.filteredRoutes, outcome.selectedRoutes, probe.deliveryType))

\* C13: the selection the optimizer produces either costs, at the tiered
\* rate of its summed address counts, at most the budget, or it consists of
\* exactly one route.
C13_WithinBudgetOrSingle ==
    Optimized =>
        \/ SelectionCost <= probe.budget * 1000
        \/ Len(outcome.selectedRoutes) = 1

\* the optimizer took two of three routes and left out the one that did not fit
C13_Witness ==
    /\ Optimized
    /\ Len(probe.filteredRoutes) = 3
    /\ Len(outcome.selectedRoutes) = 2
    /\ SelectionCost <= probe.budget * 1000
    /\ \E r \in Range(probe.filteredRoutes) :
          /\ ~Includes(outcome.selectedRoutes, r.id)
          /\ getRouteAddresses(r, probe.deliveryType) > 0

\* the in-scope routes with the address count and standalone cost of each
Valued == ValuedRoutes(probe.filteredRoutes, probe.deliveryType)

\* a has more addresses per dollar of standalone cost than b
Denser(a, b) == a.addresses * b.estimatedCost > b.addresses * a.estimatedCost

\* no route alone costs at most the budget
NoRouteFits == \A i \in DOMAIN Valued : Valued[i].estimatedCost > probe.budget * 1000

\* the earliest route of the list that no route beats in value density
HighestDensity ==
    Valued[CHOOSE i \in DOMAIN Valued :
              /\ \A j \in DOMAIN Valued : ~Denser(Valued[j], Valued[i])
              /\ \A j \in 1..(i - 1) : Denser(Valued[i], Valued[j])]

\* the selection is not empty, and is the one densest route when nothing fits
NonEmptyAndForced ==
    /\ outcome.selectedRoutes # <<>>
    /\ NoRouteFits => outcome.selectedRoutes = << HighestDensity.id >>

InputPosition(id) == CHOOSE i \in DOMAIN Valued : Valued[i].id = id

\* the array the loop walked never puts a route before a denser one, and puts
\* routes of equal value density in input order; a route without addresses
\* has no value density and is not compared
WalkedDescendingStable ==
    LET walked == outcome.routesWithValue
    IN \A i, j \in DOMAIN walked :
          (i < j /\ walked[i].addresses > 0 /\ walked[j].addresses > 0) =>
              /\ ~Denser(walked[j], walked[i])
              /\ ~Denser(walked[i], walked[j]) =>
                    InputPosition(walked[i].id) < InputPosition(walked[j].id)

\* C15: the optimizer walks the routes by descending value density with equal
\* densities in input order, and the route list, delivery type and budget
\* determine the selection, also when a route has no addresses.
C15_DescendingStableDeterministic ==
    Optimized =>
        /\ WalkedDescendingStable
        /\ OptimizedSelections(probe.filteredRoutes, probe.deliveryType,
                               probe.budget * 1000) = { outcome.selectedRoutes }

\* the same without a route of 0 addresses in the list
C15_HoldsWithAddresses ==
    (Optimized /\ \A i \in DOMAIN Valued : Valued[i].addresses > 0) =>
        /\ WalkedDescendingStable
        /\ OptimizedSelections(probe.filteredRoutes, probe.deliveryType,
                               probe.budget * 1000) = { outcome.selectedRoutes }

(***************************************************************************)
(* Properties of the print estimate.                                       *)
(***************************************************************************)
\* the quantity has a print tier and the estimate of the order panel is out
PricedPrint ==
    /\ outcome.by = "calculateTotal"
    /\ MatchingTiers(printPricingTiers, probe.addresses) # {}

\* the print tier the quantity matches
MatchedTier == CHOOSE i \in MatchingTiers(printPricingTiers, probe.addresses) : TRUE

\* C16: for a total q that matches a print tier the estimate's total is
\* q * (tier rate + postage + bundling), and the units until the next tier are
\* the next tier's min minus q, or 0 in the top tier.
C16_TotalAndUnitsUntilNextTier ==
    PricedPrint =>
        /\ outcome.value.total =
              probe.addresses
                 * (printPricingTiers[MatchedTier].rate + POSTAGE_RATE + BUNDLING_RATE)
        /\ outcome.value.addressesUntilNextDiscount =
              IF MatchedTier = Len(printPricingTiers) THEN 0
              ELSE printPricingTiers[MatchedTier + 1].min - probe.addresses

\* a quantity at the end of a tier is one unit away from the next
C16_Witness ==
    /\ PricedPrint
    /\ probe.addresses = printPricingTiers[2].max
    /\ outcome.value.addressesUntilNextDiscount = 1
    /\ outcome.value.total = probe.addresses * (170 + 250 + 35)

\* C17 as stated: 2450 addresses are priced at 0.12 per piece, 992.25 in
\* total, 50 units before the next tier.
C17_PriceFor2450AtTwelveCents ==
    (outcome.by = "calculateTotal" /\ probe.addresses = 2450) =>
        /\ ~outcome.value.belowMinimum
        /\ outcome.value.printRate = 120
        /\ outcome.value.total = 992250
        /\ outcome.value.addressesUntilNextDiscount = 50

\* C17: 2450 addresses are priced at 0.17 per piece, 1,114.75 in total, 50
\* units before the next tier.
C17_PriceFor2450AtSeventeenCents ==
    (outcome.by = "calculateTotal" /\ probe.addresses = 2450) =>
        /\ ~outcome.value.belowMinimum
        /\ outcome.value.printRate = 170
        /\ outcome.value.total = 1114750
        /\ outcome.value.addressesUntilNextDiscount = 50

\* the estimate for 2450 addresses is out
C17_Witness ==
    /\ outcome.by = "calculateTotal"
    /\ probe.addresses = 2450
    /\ ~outcome.value.belowMinimum
    /\ outcome.value.addresses = 2450

\* the smaller quantities that have a print rate, and their rate
SmallerPrinted ==
    { q \in Quantities : q < probe.addresses /\ ~calculateTotalFor(q).belowMinimum }

\* C18: in the print and in the turnkey table the rate never rises with the
\* quantity: a quantity's rate is at most the rate of every smaller quantity
\* that has one.
C18_RatesNeverRise ==
    /\ (outcome.by = "calculateTotal" /\ ~outcome.value.belowMinimum) =>
          \A q \in SmallerPrinted :
              outcome.value.printRate <= calculateTotalFor(q).printRate
    /\ outcome.by = "calculateCostForAddresses" =>
          \A q \in Quantities :
              q < probe.addresses => outcome.printRate <= OptimizerPrintRate(q)
    /\ outcome.by = "getTurnkeyRatePerPiece" =>
          \A q \in Quantities :
              q < probe.addresses => outcome.value <= getTurnkeyRatePerPiece(q)

\* a turnkey rate was looked up at the start of a tier, below the rate of the
\* quantity just under it
C18_Witness ==
    /\ outcome.by = "getTurnkeyRatePerPiece"
    /\ probe.addresses = TURNKEY_PRICING_TIERS[3].min
    /\ outcome.value < getTurnkeyRatePerPiece(probe.addresses - 1)
    /\ probe.addresses - 1 \in Quantities

(***************************************************************************)
(* Properties of the selection prune.                                      *)
(***************************************************************************)
Pruned == outcome.by = "pruneSelection"

InScopeIds == { r.id : r \in Range(probe.filteredRoutes) }

\* position of an id in a list of distinct ids
PositionIn(ids, id) == CHOOSE i \in DOMAIN ids : ids[i] = id

\* C19: a prune leaves exactly the selected ids that are in scope, in their
\* relative order, so a selection already in scope is left as it is and a
\* second prune against the same in-scope list changes nothing.
C19_PruneKeepsInScopeInOrder ==
    Pruned =>
        /\ Range(outcome.value) = Range(outcome.before) \cap InScopeIds
        /\ Len(outcome.value) = Cardinality(Range(outcome.value))
        /\ \A i, j \in DOMAIN outcome.value :
              i < j => PositionIn(outcome.before, outcome.value[i])
                         < PositionIn(outcome.before, outcome.value[j])
        /\ Range(outcome.before) \subseteq InScopeIds => outcome.value = outcome.before
        /\ outcome.runs = 2 => outcome.value = outcome.before

\* a first prune removed an id and kept two in an order that is not the
\* in-scope list's, and the second prune has run
C19_Witness ==
    /\ Pruned
    /\ outcome.runs = 2
    /\ Len(probe.selectedRoutes) = 3
    /\ Len(outcome.value) = 2
    /\ PositionIn(Ids(probe.filteredRoutes), outcome.value[1])
          > PositionIn(Ids(probe.filteredRoutes), outcome.value[2])

(***************************************************************************)
(* Properties of the search modes.                                         *)
(***************************************************************************)
LastSearch == searches[Len(searches)]

\* a ZIP search has started and has not returned
ZipSearchRunning == searches # <<>> /\ LastSearch.kind = "zip" /\ LastSearch.phase # "done"

Starts(origin) ==
    /\ Len(searches') = Len(searches) + 1
    /\ searches'[Len(searches')].origin = origin

ProbedPoints == Flat(probe.route.coordinates)

\* squared distance of a vertex from the probed circle center
VertexDistSq(p) ==
    (p[1] - probe.center[1]) * (p[1] - probe.center[1])
      + (p[2] - probe.center[2]) * (p[2] - probe.center[2])

SomeVertexWithinRadius ==
    \E m \in DOMAIN ProbedPoints :
        VertexDistSq(ProbedPoints[m]) <= probe.radius * probe.radius

\* the mean of the route's points is within 1.2 radii of the center: with n
\* points of sums sx, sy, 25 * |(sx, sy) - n * center|^2 <= 36 * n^2 * radius^2
CentroidWithinSlack ==
    LET n  == Len(ProbedPoints)
        dx == SumSeq([m \in DOMAIN ProbedPoints |-> ProbedPoints[m][1]]) - n * probe.center[1]
        dy == SumSeq([m \in DOMAIN ProbedPoints |-> ProbedPoints[m][2]]) - n * probe.center[2]
    IN n > 0 /\ 25 * (dx * dx + dy * dy) <= 36 * n * n * probe.radius * probe.radius

\* C21: routeIntersectsRadius is true exactly when a vertex of a ring is
\* within the radius of the center or the centroid is within 1.2 radii of it.
C21_VertexOrCentroidSlack ==
    outcome.by = "routeIntersectsRadius" =>
        outcome.value = (SomeVertexWithinRadius \/ CentroidWithinSlack)

\* a vertex at 4.9 miles and the centroid at 6.2 miles of a 5-mile circle:
\* the route intersects through the vertex alone
C21_Witness ==
    /\ outcome.by = "routeIntersectsRadius"
    /\ probe.radius = 50
    /\ probe.center = <<0, 0>>
    /\ \E m \in DOMAIN ProbedPoints : VertexDistSq(ProbedPoints[m]) = 49 * 49
    /\ probe.route.center = [x |-> 3 * 62, y |-> 0, n |-> 3]
    /\ ~CentroidWithinSlack
    /\ outcome.value = TRUE

(***************************************************************************)
(* Properties of the radius search.                                        *)
(***************************************************************************)
\* the fetches search s issued for ZIP z that the component still holds
FetchesFor(s, z) == { f \in FetchesOf(fetches, s) : f.zip = z }

\* C22: within one radius search at most one route fetch exists for each
\* ZIP, the center ZIP known in advance included.
C22_OneFetchPerZip ==
    \A s \in DOMAIN searches :
       searches[s].kind = "radius" =>
          \A z \in Zips : Cardinality(FetchesFor(s, z)) <= 1

\* a search knew its center ZIP, discovery returned it with another ZIP, and
\* each of the two has its one fetch
C22_Witness ==
    \E s \in DOMAIN searches :
       /\ searches[s].kind = "radius"
       /\ searches[s].knownCenterZip # ""
       /\ searches[s].phase \in {"fetch", "done"}
       /\ searches[s].allZipCodes = Zips
       /\ \A z \in Zips : Cardinality(FetchesFor(s, z)) = 1
       /\ \E f \in FetchesFor(s, searches[s].knownCenterZip) : f.isCenter

(***************************************************************************)
(* Properties of the ROI calculator.                                       *)
(***************************************************************************)
ROIComputed == outcome.by = "calculateROI"

ScenarioSet == { "baseline", "typical", "bestInClass" }

\* the conversion rate calculateROI used for a scenario
ConversionRateUsed(scenario) == outcome.value[scenario].conversionRate

\* C23: no scenario of calculateROI holds NaN or Infinity; roiMultiple is 0
\* when campaignCost is 0, cac is 0 when there are no customers, and
\* breakEvenResponseRate is 0 when totalAddresses or the conversion rate is 0.
C23_ZeroDenominatorsGiveZero ==
    ROIComputed =>
        \A scenario \in ScenarioSet :
           LET r == outcome.value[scenario]
           IN /\ \A field \in DOMAIN r : IsNumber(r[field])
              /\ probe.campaign.campaignCost = Zero => r.roiMultiple = Zero
              /\ (probe.campaign.totalAddresses = 0 \/ ConversionRateUsed(scenario) = Zero)
                    => (r.cac = Zero /\ r.breakEvenResponseRate = Zero)

\* a campaign without cost, one without addresses and one with a conversion
\* rate of 0 have each been computed; this one has no customers but a cost
C23_Witness ==
    /\ ROIComputed
    /\ ConversionRateUsed("typical") = Zero
    /\ probe.campaign.totalAddresses > 0
    /\ Positive(probe.campaign.campaignCost)
    /\ outcome.value.typical.cac = Zero

\* a greater than n / d
GreaterThan(a, n, d) == a.kind = "Infinity" \/ (IsNumber(a) /\ a.num * d > n * a.den)

\* the campaign is priced by one of the planners, or is the tested one, and
\* the benchmark of the industry is used as it is
PlannerCampaign(pricings) ==
    /\ ROIComputed
    /\ probe.overrides = NoOverrides
    /\ probe.campaign.pricing \in pricings
    /\ probe.campaign.totalAddresses > 0

\* C24: for every industry the Typical scenario shows an ROI multiple above
\* 1.1 for a campaign at the planner's price for its address count, print or
\* turnkey, and for the tested campaign of 5,000 addresses at $1,250.
C24_TypicalAboveOnePointOne ==
    PlannerCampaign({"print", "turnkey", "tested"}) =>
        GreaterThan(outcome.value.typical.roiMultiple, 11, 10)

\* the same for print-tier prices and the tested campaign alone
C24_HoldsAtPrintPrices ==
    PlannerCampaign({"print", "tested"}) =>
        GreaterThan(outcome.value.typical.roiMultiple, 11, 10)

\* the leads whose handler has run to its end
LeadsHandled ==
    IF outcome.by = "leads"
    THEN { id \in 1..outcome.submitted :
             \A a \in Range(outcome.awaiting) : a.id # id }
    ELSE {}

SuccessReported(id) == \E a \in Range(outcome.alerts) : a.id = id

\* C25: no lead is lost: a submitted lead that did not reach the webhook
\* (the call failed or no webhook is configured) is on the 'eddm-leads' list
\* of localStorage, and success is reported to the user only for a lead that
\* reached the webhook or localStorage.
C25_NoLeadLost ==
    \A id \in LeadsHandled :
        /\ id \notin outcome.webhook => id \in Range(outcome.leads)
        /\ SuccessReported(id) => id \in outcome.webhook \/ id \in Range(outcome.leads)

\* what the quote form alone guarantees: success only for a lead kept somewhere
C25_QuoteReportsTruthfully ==
    \A id \in LeadsHandled :
        (\E a \in Range(outcome.alerts) :
            a.id = id /\ a.text \in { "Quote request received", "Quote request saved" })
        => id \in outcome.webhook \/ id \in Range(outcome.leads)

\* a search started by drawing a polygon on an empty catalog has settled, no
\* other search ran beside it, and the polygon is still drawn
PolygonSearchSettled(s) ==
    /\ searches[s].origin = "polygon"
    /\ SettledRadiusSearch(s)
    /\ drawnPolygonPath # Null
    /\ Len(drawnPolygonPath) >= 3

\* C26: when a polygon is drawn while no routes are loaded, then once all
\* route fetches it triggered have completed the selection consists of every
\* route inside the polygon, whatever the number of ZIPs fetched and the
\* order in which their fetches complete.
C26_PolygonSearchSelectsAllInside ==
    \A s \in DOMAIN searches :
        PolygonSearchSettled(s) =>
            Range(selectedRoutes) = Range(Ids(filteredRoutes))

\* with a single ZIP fetched the selection is every route inside the polygon
C26_HoldsForOneZip ==
    \A s \in DOMAIN searches :
        PolygonSearchSettled(s) /\ Cardinality(searches[s].allZipCodes) = 1 =>
            Range(selectedRoutes) = Range(Ids(filteredRoutes))

\* the fetches issued by the latest search
LatestFetches == FetchesOf(fetches, Len(searches))

\* a search has started, and every search cleared the catalog as it started
\* (a typed address is geocoded first and clears later, or never)
LatestSearchCleared ==
    /\ searches # << >>
    /\ \A t \in DOMAIN searches : searches[t].origin # "geocode"

FromLatestSearch(route) ==
    \E f \in LatestFetches : f.status = "fulfilled" /\ f.zip = route.zipCode

\* C27: after a new ZIP or radius search has cleared the catalog, the catalog
\* only ever contains routes of ZIPs fetched by that latest search: a fetch
\* issued by an earlier search that completes afterwards does not add its
\* routes to the catalog.
C27_CatalogOfLatestSearch ==
    LatestSearchCleared => \A i \in DOMAIN routes : FromLatestSearch(routes[i])

\* as long as no search starts beside another the catalog is the latest one's
C27_HoldsWithoutOverlap ==
    LatestSearchCleared /\ (\A t \in DOMAIN searches : ~searches[t].concurrent) =>
        \A i \in DOMAIN routes : FromLatestSearch(routes[i])

\* radius search s settles in this step, having found ZIPs to fetch
RadiusSearchSettles(s) ==
    /\ searches[s].kind = "radius"
    /\ searches[s].phase # "done"
    /\ searches'[s].phase = "done"
    /\ searches'[s].allZipCodes # {}

\* the ZIP fetches of search s, among fs, that loaded routes and that failed
ZipsLoaded(fs, s) == Cardinality({ f \in FetchesOf(fs, s) : f.status = "fulfilled" })

ZipsFailed(fs, s) == Cardinality({ f \in FetchesOf(fs, s) : f.status = "rejected" })

\* the message err tells what happened to the fetches of search s
OutcomeMatches(err, fs, s) ==
    IF ZipsLoaded(fs, s) = 0
    THEN err.kind = "none_loaded"
    ELSE /\ err.kind # "none_loaded"
         /\ err.kind = "partial" =>
               err.ok = ZipsLoaded(fs, s) /\ err.failed = ZipsFailed(fs, s)

\* C28: when a radius search settles, its reported outcome matches what
\* happened: if no ZIP's routes were loaded the 'Could not load routes from
\* any ZIP codes' error is set, and otherwise the reported numbers of
\* succeeded and failed ZIPs are the numbers of ZIP fetches that succeeded and
\* failed, also when the center ZIP was known in advance.
C28_ReportedOutcomeMatches ==
    [][ \A s \in DOMAIN searches :
          RadiusSearchSettles(s) => OutcomeMatches(geocodeError', fetches', s) ]_vars

\* the report is right for a search that did not know its center ZIP
C28_HoldsWithoutKnownCenter ==
    [][ \A s \in DOMAIN searches :
          RadiusSearchSettles(s) /\ searches[s].knownCenterZip = "" =>
              OutcomeMatches(geocodeError', fetches', s) ]_vars

\* the estimate computed by one of the given functions offers the next-tier
\* incentive
IncentiveOffered(by) ==
    /\ outcome.by \in by
    /\ ~outcome.value.belowMinimum
    /\ outcome.value.hasNextTier
    /\ outcome.value.addressesUntilNextDiscount > 0

\* C29: whenever the estimate offers the next-tier incentive (a higher tier
\* exists and the number of addresses still needed to reach it is greater
\* than 0), the potential savings it reports are not negative, in the
\* print-tier and in the turnkey pricing.
C29_SavingsNotNegative ==
    IncentiveOffered({ "calculateTotal", "calculateTotalTurnkey" }) =>
        outcome.value.potentialSavings >= 0

\* the turnkey estimate never offers negative savings
C29_HoldsForTurnkey ==
    IncentiveOffered({ "calculateTotalTurnkey" }) => outcome.value.potentialSavings >= 0

\* a search is fetching: its ZIP discovery or one of its route fetches is
\* under way (a typed address still being geocoded shows the geocoding flag)
SearchInProgress == \E s \in DOMAIN searches : searches[s].phase \in { "discover", "fetch" }

FetchOutstanding == \E f \in fetches : f.status = "pending"

\* C30: the loading flag is true exactly while a search is in progress: true
\* from the start of any ZIP, radius or polygon-triggered search until all
\* route fetches of every search still in progress have settled, and false
\* once no fetch is outstanding, also when searches overlap and when fetches
\* fail.
C30_LoadingWhileSearching ==
    /\ SearchInProgress => loading
    /\ ~SearchInProgress /\ ~FetchOutstanding => ~loading

\* with no search started beside another the flag follows the search
C30_HoldsWithoutOverlap ==
    (\A t \in DOMAIN searches : ~searches[t].concurrent) =>
        /\ SearchInProgress => loading
        /\ ~SearchInProgress /\ ~FetchOutstanding => ~loading

====
